---- MODULE Spec2Model ----
(***************************************************************************)
(* OpenMemory API (openmemory/api/app): the REST routers for memories and  *)
(* attachments and the MCP tool server, as one state machine over the      *)
(* relational metadata store, the attachment table and the vector store.   *)
(*                                                                         *)
(* Every handler is one action.  A handler's inputs (the request) and the  *)
(* answers of its external collaborators (memory client, vector store,     *)
(* database commit) are parameters of the action; each specification       *)
(* below draws them from the sets it names.                                *)
(***************************************************************************)
EXTENDS Integers, Sequences, FiniteSets, TLC

VARIABLES
    mem,      \* memories table: memory id -> row (committed rows only)
    vec,      \* vector store: point id -> payload
    att,      \* attachments table: attachment id -> content
    acl,      \* access_controls rows with object_type = memory, in query order
    history,  \* memory_status_history rows committed by the latest request
    last,     \* the latest request and its response
    served,   \* number of requests served so far
    loop      \* the handler the event loop is running, Idle when none

vars == <<mem, vec, att, acl, history, last, served, loop>>

(***************************************************************************)
(* Bounds of the model.                                                    *)
(***************************************************************************)
MaxEvents == 2     \* longest event list the memory client returns
MaxIdList == 2     \* longest id list of a delete / archive request
MaxRequests == 3   \* requests served in one run
MaxRules == 2      \* longest list of access rules

(***************************************************************************)
(* Universes.                                                              *)
(***************************************************************************)
MemoryIds == {"m1", "m2"}
AttIds    == {"a1", "a2"}
Users     == {"u1", "u2"}
Apps      == {"app1", "app2"}
Texts     == {"t1", "t2"}
Facts     == {"f1"}

\* attachments.py:15-16
ATTACHMENT_MAX_SIZE_MB == 100
ATTACHMENT_MAX_SIZE_BYTES == ATTACHMENT_MAX_SIZE_MB * 1024 * 1024

(***************************************************************************)
(* Values.                                                                 *)
(***************************************************************************)
\* A text blob, by the number of its code points that encode to one byte
\* and to two bytes in UTF-8.
Content(ascii, wide) == [ascii |-> ascii, wide |-> wide]
NoText == [ascii |-> -1, wide |-> 0]            \* Python None
Small  == Content(1, 0)
AtCeiling   == Content(ATTACHMENT_MAX_SIZE_BYTES, 0)
OverCeiling == Content(ATTACHMENT_MAX_SIZE_BYTES + 1, 0)
\* ceiling - 1 code points, one of them two bytes wide: ceiling + 1 bytes
WideOver    == Content(ATTACHMENT_MAX_SIZE_BYTES - 1, 1)

\* len(content.encode('utf-8'))
utf8_len(c) == c.ascii + 2 * c.wide
\* len(content)
str_len(c) == c.ascii + c.wide
\* truth value of an Optional[str]
Truthy(c) == c # NoText /\ str_len(c) > 0

\* metadata["attachment_ids"]: the key absent, or a list
NoKey == [kind |-> "absent", ids |-> <<>>]
IdList(s) == [kind |-> "list", ids |-> s]
\* metadata["attachment_ids"] given as one string, not as a list
Scalar(id) == [kind |-> "scalar", ids |-> <<id>>]
NoId == "none"                                   \* Python None for an id

\* the event loop of the server process runs no handler
Idle == [op |-> "idle"]

Range(s) == {s[i] : i \in 1..Len(s)}
\* the ids a metadata object lists under attachment_ids
RefsIn(v) == IF v.kind = "list" THEN Range(v.ids) ELSE {}
SeqsUpTo(S, n) == UNION {[1..k -> S] : k \in 0..n}

Without(f, x) == [y \in DOMAIN f \ {x} |-> f[y]]
WithoutAll(f, X) == [y \in DOMAIN f \ X |-> f[y]]

States == {"active", "paused", "archived", "deleted"}

TypeOK ==
    /\ DOMAIN mem \subseteq MemoryIds
    /\ \A m \in DOMAIN mem : mem[m].state \in States
    /\ DOMAIN vec \subseteq MemoryIds
    /\ DOMAIN att \subseteq AttIds

Init ==
    /\ mem = <<>>
    /\ vec = <<>>
    /\ att = <<>>
    /\ acl = <<>>
    /\ history = <<>>
    /\ last = [op |-> "init"]
    /\ served = 0
    /\ loop = Idle

(***************************************************************************)
(* routers/attachments.py                                                  *)
(***************************************************************************)
\* validate_content_size with the comparison off by one: a content of
\* exactly the ceiling is refused
validate_content_size_strict(content) ==
    utf8_len(content) < ATTACHMENT_MAX_SIZE_BYTES

\* attachments.py:19-26.  TRUE when the content passes.
validate_content_size(content) == utf8_len(content) <= ATTACHMENT_MAX_SIZE_BYTES

\* uuid4(): an id no row holds and nothing refers to
FreshAttIds ==
    AttIds \ (DOMAIN att
              \cup UNION {RefsIn(mem[m].attachment_ids) : m \in DOMAIN mem}
              \cup UNION {RefsIn(vec[p].attachment_ids) : p \in DOMAIN vec})

\* create_attachment without the look-up of the id: the row is written
\* whether or not one exists
create_attachment_unchecked(content, id) ==
    /\ id = NoId => FreshAttIds # {}
    /\ \E new \in (IF id = NoId THEN FreshAttIds ELSE {id}) :
        LET rsp(status) == [op |-> "create_attachment", surface |-> "rest",
                            id |-> new, content |-> content, status |-> status]
        IN  IF ~validate_content_size(content)
            THEN /\ last' = rsp("413")
                 /\ UNCHANGED <<mem, vec, att>>
            ELSE /\ att' = (new :> content) @@ att
                 /\ last' = rsp("201")
                 /\ UNCHANGED <<mem, vec>>
    /\ history' = <<>>

\* attachments.py:30-60.  id = NoId: the id is generated.  The coroutine
\* has no await between the look-up and the commit: it is one step of the
\* event loop.
create_attachment(content, id) ==
    /\ id = NoId => FreshAttIds # {}
    /\ \E new \in (IF id = NoId THEN FreshAttIds ELSE {id}) :
        LET rsp(status) == [op |-> "create_attachment", surface |-> "rest",
                            id |-> new, content |-> content, status |-> status]
        IN  IF ~validate_content_size(content)
            THEN /\ last' = rsp("413")
                 /\ UNCHANGED <<mem, vec, att>>
            ELSE IF new \in DOMAIN att
            THEN /\ last' = rsp("409")
                 /\ UNCHANGED <<mem, vec, att>>
            ELSE /\ att' = (new :> content) @@ att
                 /\ last' = rsp("201")
                 /\ UNCHANGED <<mem, vec>>
    /\ history' = <<>>

\* attachments.py:63-77
get_attachment(id) ==
    /\ last' = [op |-> "get_attachment", surface |-> "rest", id |-> id,
                status |-> IF id \in DOMAIN att THEN "200" ELSE "404"]
    /\ history' = <<>>
    /\ UNCHANGED <<mem, vec, att>>

\* attachments.py:80-104
update_attachment(id, content) ==
    LET rsp(status) == [op |-> "update_attachment", surface |-> "rest",
                        id |-> id, content |-> content, status |-> status]
    IN  /\ IF ~validate_content_size(content)
           THEN /\ last' = rsp("413")
                /\ att' = att
           ELSE IF id \notin DOMAIN att
           THEN /\ last' = rsp("404")
                /\ att' = att
           ELSE /\ att' = [att EXCEPT ![id] = content]
                /\ last' = rsp("200")
        /\ history' = <<>>
        /\ UNCHANGED <<mem, vec>>

\* delete_attachment answering 404 for an id no row holds
delete_attachment_strict(id) ==
    /\ att' = Without(att, id)
    /\ last' = [op |-> "delete_attachment", surface |-> "rest", id |-> id,
                existed |-> id \in DOMAIN att,
                status |-> IF id \in DOMAIN att THEN "204" ELSE "404"]
    /\ history' = <<>>
    /\ UNCHANGED <<mem, vec>>

\* attachments.py:107-119: the row is deleted "if attachment", and the
\* answer is 204 either way
delete_attachment(id) ==
    /\ att' = Without(att, id)
    /\ last' = [op |-> "delete_attachment", surface |-> "rest", id |-> id,
                existed |-> id \in DOMAIN att, status |-> "204"]
    /\ history' = <<>>
    /\ UNCHANGED <<mem, vec>>

(***************************************************************************)
(* mcp_server.py: attachment tools                                         *)
(***************************************************************************)
\* mcp_server.py:667-704
mcp_create_attachment(content, id) ==
    /\ id = NoId => FreshAttIds # {}
    /\ \E new \in (IF id = NoId THEN FreshAttIds ELSE {id}) :
        LET rsp(status) == [op |-> "create_attachment", surface |-> "mcp",
                            id |-> new, content |-> content, status |-> status]
        IN  IF new \in DOMAIN att
            THEN /\ last' = rsp("error")
                 /\ UNCHANGED <<mem, vec, att>>
            ELSE /\ att' = (new :> content) @@ att
                 /\ last' = rsp("ok")
                 /\ UNCHANGED <<mem, vec>>
    /\ history' = <<>>

\* mcp_server.py:708-738
mcp_update_attachment(id, content) ==
    LET rsp(status) == [op |-> "update_attachment", surface |-> "mcp",
                        id |-> id, content |-> content, status |-> status]
    IN  /\ IF id \notin DOMAIN att
           THEN /\ last' = rsp("error")
                /\ att' = att
           ELSE /\ att' = [att EXCEPT ![id] = content]
                /\ last' = rsp("ok")
        /\ history' = <<>>
        /\ UNCHANGED <<mem, vec>>

\* mcp_server.py:514-537
mcp_get_attachment(id) ==
    /\ last' = [op |-> "get_attachment", surface |-> "mcp", id |-> id,
                status |-> IF id \in DOMAIN att THEN "ok" ELSE "error"]
    /\ history' = <<>>
    /\ UNCHANGED <<mem, vec, att>>

\* mcp_server.py:541-560
mcp_delete_attachment(id) ==
    /\ att' = Without(att, id)
    /\ last' = [op |-> "delete_attachment", surface |-> "mcp", id |-> id,
                existed |-> id \in DOMAIN att, status |-> "ok"]
    /\ history' = <<>>
    /\ UNCHANGED <<mem, vec>>

(***************************************************************************)
(* The memory client (mem0 core, behind get_memory_client()): add, get and  *)
(* delete over the vector store, as the ingestion pipeline of the design   *)
(* describes them.                                                         *)
(***************************************************************************)
Event(kind, id, memory, merged) ==
    [event |-> kind, id |-> id, memory |-> memory, merged |-> merged]

Payload(data, user, ids) ==
    [data |-> data, user_id |-> user, attachment_ids |-> ids]

PointsOf(v, user) == {p \in DOMAIN v : v[p].user_id = user}

\* The effect of one event on the vector store.  ADD upserts a point whose
\* payload carries the metadata of the call, UPDATE replaces the text and
\* the merged attachment_ids, DELETE removes the point.
VecStep(v, e, user, md) ==
    CASE e.event = "ADD"    -> (e.id :> Payload(e.memory, user, md)) @@ v
      [] e.event = "UPDATE" ->
            [v EXCEPT ![e.id] = Payload(e.memory, v[e.id].user_id, e.merged)]
      [] e.event = "DELETE" -> Without(v, e.id)
      [] OTHER              -> v

\* The merged lists the merge decision may choose for an UPDATE: a list of
\* lim.merged over the attachment ids of the call and of the user's points,
\* which keeps the ids the call carried.
MergedLists(v, user, md, lim) ==
    LET seen == RefsIn(md)
                  \cup UNION {RefsIn(v[p].attachment_ids) : p \in PointsOf(v, user)}
    IN  {l \in lim.merged :
            /\ RefsIn(l) \subseteq seen
            /\ md.kind = "list" => l.kind = "list" /\ Range(md.ids) \subseteq Range(l.ids)}

\* The events the client may emit next; used: the ids the events so far
\* name.  An event names an id once.  An ADD carries an id that is no
\* point (a fresh one, or one whose point was deleted by an earlier call);
\* the other events name a point of the user.
EventsAt(v, user, md, kinds, memories, lim, used) ==
    LET reusable == {m \in MemoryIds \ (DOMAIN v \cup used) :
                        m \in DOMAIN mem => mem[m].user_id = user}
        points == PointsOf(v, user) \ used
    IN  (({"ADD"} \cap kinds) \X reusable \X memories \X {NoKey})
        \cup (({"UPDATE"} \cap kinds) \X points \X memories
                \X MergedLists(v, user, md, lim))
        \cup (({"DELETE", "NONE"} \cap kinds) \X points \X {NoId} \X {NoKey})

RECURSIVE ClientRuns(_, _, _, _, _, _, _)
ClientRuns(v, user, md, kinds, memories, lim, used) ==
    {[results |-> <<>>, vec |-> v]} \cup
    IF Cardinality(used) >= lim.events THEN {}
    ELSE UNION {
           LET e == Event(t[1], t[2], t[3], t[4])
           IN  {[results |-> <<e>> \o r.results, vec |-> r.vec] :
                  r \in ClientRuns(VecStep(v, e, user, md), user, md, kinds,
                                   memories, lim, used \cup {e.id})}
           : t \in EventsAt(v, user, md, kinds, memories, lim, used)}

\* memory_client.add(text, user_id, metadata, infer, extract, deduplicate):
\* the outcomes, each the returned results and the vector store it leaves.
\* infer=False writes the raw text as one point (one ADD).  Otherwise the
\* facts are the extractor's (extract) or the raw text, and each goes
\* through the merge decision (deduplicate) or becomes an ADD.
ClientAdd(text, user, md, infer, extract, deduplicate, lim) ==
    LET memories == IF extract THEN lim.facts ELSE {text}
        kinds == IF deduplicate THEN lim.kinds ELSE {"ADD"}
        runs == ClientRuns(vec, user, md, kinds, memories, lim, {})
        ok == IF ~infer \/ (~extract /\ ~deduplicate)
              THEN {r \in runs : Len(r.results) = 1}
              ELSE runs
    IN  {[raised |-> FALSE, results |-> r.results, vec |-> r.vec] : r \in ok}
        \cup (IF lim.raises
              THEN {[raised |-> TRUE, results |-> <<>>, vec |-> r.vec] : r \in runs}
              ELSE {})

(***************************************************************************)
(* The database session of one request: the rows as the request has        *)
(* changed them, not yet committed.  A row's metadata_ attribute holds a   *)
(* reference to the request's metadata dict until the row is flushed; the  *)
(* JSON column is serialised at the flush.                                 *)
(***************************************************************************)
\* S.mem: rows, S.md: metadata["attachment_ids"] of the request's dict,
\* S.keys: the other keys of the dict,
\* S.alias: rows whose metadata_ is the dict and is not flushed yet,
\* S.hist: history rows added, S.created: len(created_memories)
Session(md) ==
    [mem |-> mem, md |-> md, keys |-> {}, alias |-> {}, hist |-> <<>>,
     created |-> 0]

\* mcp_server.py:105-111: combined_metadata starts from the system keys
SystemMetadata == {"source_app", "mcp_client"}

McpSession(md) == [Session(md) EXCEPT !.keys = SystemMetadata]

Flush(S) ==
    [S EXCEPT !.mem = [m \in DOMAIN S.mem |->
                         IF m \in S.alias
                         THEN [S.mem[m] EXCEPT !.attachment_ids = S.md,
                                               !.keys = S.keys]
                         ELSE S.mem[m]],
              !.alias = {}]

\* db.query(...): a session with autoflush flushes before the query runs
Query(S, autoflush) == IF autoflush THEN Flush(S) ELSE S

\* Memory(id, user_id, app_id, content, metadata_, state=active); metadata_
\* is set by the caller: attachment_ids is its "attachment_ids" entry, keys
\* the other keys it has
Memory(user, app, content) ==
    [user_id |-> user, app_id |-> app, content |-> content,
     state |-> "active", attachment_ids |-> NoKey, keys |-> {},
     deleted_at |-> FALSE, categories |-> {}]

MemoryStatusHistory(id, old, new) ==
    [memory_id |-> id, old_state |-> old, new_state |-> new]

\* uuid4() for a memory row
FreshMemIds == MemoryIds \ (DOMAIN mem \cup DOMAIN vec)

\* a null request value read as "not set": false whatever the default
Resolve_null_is_false(v, default) == v = "true"

\* memories.py:318-320, mcp_server.py:85-87: the request value if it is
\* not None, else the configured default
Resolve(v, default) == IF v = "null" THEN default ELSE v = "true"

\* the is_active check with every app taken for active
is_active_unchecked(env) == TRUE

\* memories.py:297 / mcp_server.py:102: app.is_active
is_active(env) == env.app_active

(***************************************************************************)
(* routers/memories.py: create_memory                                      *)
(***************************************************************************)
\* handle_attachment without the query for an existing row: the content
\* given replaces the one stored under the id
handle_attachment_unchecked(attachment_text, attachment_id, metadata) ==
    IF Truthy(attachment_text)
    THEN {[status |-> "200", att |-> (new :> attachment_text) @@ att,
           md |-> IdList(<<new>>), id |-> new]
          : new \in (IF attachment_id = NoId THEN FreshAttIds ELSE {attachment_id})}
    ELSE {[status |-> "200", att |-> att, md |-> metadata, id |-> attachment_id]}

\* memories.py:219-275.  The outcomes: the status, the attachments table
\* as the session holds it, metadata["attachment_ids"], the attachment id.
handle_attachment(attachment_text, attachment_id, metadata) ==
    IF Truthy(attachment_text)
    THEN {IF new \in DOMAIN att
          THEN [status |-> "409", att |-> att, md |-> metadata, id |-> new]
          ELSE [status |-> "200", att |-> (new :> attachment_text) @@ att,
                md |-> IdList(<<new>>), id |-> new]
          : new \in (IF attachment_id = NoId THEN FreshAttIds ELSE {attachment_id})}
    ELSE IF attachment_id # NoId
    THEN {IF attachment_id \notin DOMAIN att
          THEN [status |-> "404", att |-> att, md |-> metadata, id |-> attachment_id]
          ELSE [status |-> "200", att |-> att,
                md |-> IdList(<<attachment_id>>), id |-> attachment_id]}
    ELSE {[status |-> "200", att |-> att, md |-> metadata, id |-> NoId]}

\* a row id minted on the metadata side instead of the id of the result
result_id_minted(result) == CHOOSE m \in MemoryIds : m # result.id

\* memories.py:399, mcp_server.py:160: memory_id = UUID(result['id'])
result_id(result) == result.id

\* memories.py:443-451: attachment_ids as memory_client.get() returns them
\* once the add has finished, else the dict's own value
ReRead(S, id, env, v) ==
    IF ~env.get_raises /\ id \in DOMAIN v /\ v[id].attachment_ids.kind # "absent"
    THEN v[id].attachment_ids
    ELSE S.md

\* an event without a branch handled as a change of the row it names
create_memory_skips_rewrites(S, e) ==
    IF e.id \in DOMAIN S.mem
    THEN [S EXCEPT !.mem = [@ EXCEPT ![e.id].content = e.memory],
                   !.created = @ + 1]
    ELSE S

\* memories.py:397, 434: the loop has the branches "if ADD" and "elif
\* UPDATE" and no else; a result with any other event is passed over
create_memory_skips(S, e) == S

\* memories.py:398-471: one result of qdrant_response['results']
create_memory_event(S, e, req, env, v) ==
    IF e.event = "ADD"
    THEN LET Q == Query(S, env.autoflush)
         IN  [Q EXCEPT
                !.mem = IF result_id(e) \in DOMAIN Q.mem
                        THEN [Q.mem EXCEPT ![result_id(e)].state = "active",
                                           ![result_id(e)].content = e.memory]
                        ELSE (result_id(e) :> Memory(req.user, req.app, e.memory))
                               @@ Q.mem,
                !.alias = @ \cup {result_id(e)},
                !.hist = Append(@, MemoryStatusHistory(result_id(e), "deleted",
                                                       "active")),
                !.created = @ + 1]
    ELSE IF e.event = "UPDATE"
    THEN LET Q == Query(S, env.autoflush)
         IN  IF e.id \in DOMAIN Q.mem
             THEN [Q EXCEPT
                     !.md = ReRead(Q, e.id, env, v),
                     !.mem = [@ EXCEPT ![e.id].content = e.memory],
                     !.alias = @ \cup {e.id},
                     !.hist = Append(@, MemoryStatusHistory(e.id, "active", "active")),
                     !.created = @ + 1]
             ELSE Q
    ELSE create_memory_skips(S, e)

RECURSIVE create_memory_events(_, _, _, _, _)
create_memory_events(S, es, req, env, v) ==
    IF es = <<>> THEN S
    ELSE create_memory_events(create_memory_event(S, Head(es), req, env, v),
                              Tail(es), req, env, v)

\* What a call leaves for the properties to read: the request, the configured
\* defaults it ran under, the resolved parameters, whether memory_client.add
\* was called and whether it raised, the events it returned and the ids the
\* call made.
AddRsp(surface, req, cfg, status, infer, extract, deduplicate, client_add, raised, events, new_id, att_id) ==
    [op |-> "add", surface |-> surface, req |-> req, cfg |-> cfg,
     status |-> status,
     infer |-> infer, extract |-> extract, deduplicate |-> deduplicate,
     client_add |-> client_add, raised |-> raised, events |-> events,
     new_id |-> new_id, att_id |-> att_id]

\* create_memory with the exception of memory_client.add swallowed: only a
\* failing commit fails the call
create_memory_failed_commit_only(out, S, env) ==
    S.created > 0 /\ env.commit_fails

\* memories.py:364-495, the try block: an exception of memory_client.add
\* or of db.commit() (reached only if created_memories) ends in the
\* handler "except Exception", which answers 500
create_memory_failed(out, S, env) ==
    out.raised \/ (S.created > 0 /\ env.commit_fails)

\* memories.py:279-495
create_memory(req, env, lim) ==
    LET infer_value == Resolve(req.infer, env.cfg.default_infer)
        extract_value ==
            IF ~infer_value THEN FALSE
            ELSE Resolve(req.extract, env.cfg.default_extract)
        deduplicate_value ==
            IF ~infer_value THEN FALSE
            ELSE Resolve(req.deduplicate, env.cfg.default_deduplicate)
        rsp(status, client_add, raised, events, new_id, att_id) ==
            AddRsp("rest", req, env.cfg, status, infer_value, extract_value,
                   deduplicate_value, client_add, raised, events, new_id, att_id)
        refused(status) ==
            /\ last' = rsp(status, FALSE, FALSE, <<>>, NoId, NoId)
            /\ history' = <<>>
            /\ UNCHANGED <<mem, vec, att>>
    IN  IF req.user \notin Users THEN refused("404")
        ELSE IF ~is_active(env) THEN refused("403")
        ELSE IF ~env.client_up THEN refused("503")
        ELSE \E h \in handle_attachment(req.attachment_text, req.attachment_id,
                                        req.metadata) :
          IF h.status # "200" THEN refused(h.status)
          ELSE IF ~infer_value
          THEN \* database-only memory
               \E id \in FreshMemIds :
                 IF env.commit_fails
                 THEN refused("500")
                 ELSE /\ mem' = (id :> [Memory(req.user, req.app, req.text)
                                         EXCEPT !.attachment_ids = h.md]) @@ mem
                      /\ att' = h.att
                      /\ history' = <<MemoryStatusHistory(id, "deleted", "active")>>
                      /\ last' = rsp("200", FALSE, FALSE, <<>>, id, h.id)
                      /\ vec' = vec
          ELSE \E out \in ClientAdd(req.text, req.user, h.md, infer_value,
                                    extract_value, deduplicate_value, lim) :
                 LET S == create_memory_events(Session(h.md), out.results,
                                               req, env, out.vec)
                 IN  /\ vec' = out.vec
                     /\ IF create_memory_failed(out, S, env)
                        THEN /\ last' = rsp("500", TRUE, out.raised, out.results,
                                             NoId, h.id)
                             /\ history' = <<>>
                             /\ UNCHANGED <<mem, att>>
                        ELSE IF S.created > 0
                        THEN /\ mem' = Flush(S).mem
                             /\ att' = h.att
                             /\ history' = S.hist
                             /\ last' = rsp("200", TRUE, out.raised, out.results,
                                             NoId, h.id)
                        ELSE \* the NONE reply: nothing is committed
                             /\ last' = rsp("200", TRUE, out.raised, out.results,
                                             NoId, h.id)
                             /\ history' = <<>>
                             /\ UNCHANGED <<mem, att>>

(***************************************************************************)
(* mcp_server.py: add_memories                                             *)
(***************************************************************************)
\* the intake of add_memories without its two queries: the content given
\* is stored under the id, and an id given alone is linked as it is
add_memories_attachment_unchecked(attachment_text, attachment_id, metadata) ==
    IF Truthy(attachment_text)
    THEN {[status |-> "ok", att |-> (new :> attachment_text) @@ att,
           md |-> IdList(<<new>>), id |-> new]
          : new \in (IF attachment_id = NoId THEN FreshAttIds ELSE {attachment_id})}
    ELSE IF attachment_id # NoId
    THEN {[status |-> "ok", att |-> att,
           md |-> IdList(<<attachment_id>>), id |-> attachment_id]}
    ELSE {[status |-> "ok", att |-> att, md |-> metadata, id |-> NoId]}

\* mcp_server.py:113-148
add_memories_attachment(attachment_text, attachment_id, metadata) ==
    IF Truthy(attachment_text)
    THEN {IF new \in DOMAIN att
          THEN [status |-> "error", att |-> att, md |-> metadata, id |-> new]
          ELSE [status |-> "ok", att |-> (new :> attachment_text) @@ att,
                md |-> IdList(<<new>>), id |-> new]
          : new \in (IF attachment_id = NoId THEN FreshAttIds ELSE {attachment_id})}
    ELSE IF attachment_id # NoId
    THEN {IF attachment_id \notin DOMAIN att
          THEN [status |-> "error", att |-> att, md |-> metadata, id |-> attachment_id]
          ELSE [status |-> "ok", att |-> att,
                md |-> IdList(<<attachment_id>>), id |-> attachment_id]}
    ELSE {[status |-> "ok", att |-> att, md |-> metadata, id |-> NoId]}

\* mcp_server.py:159-226: one result of response['results']
add_memories_event(S, e, req, env, v) ==
    LET Q == Query(S, env.autoflush)
    IN  IF e.event = "ADD"
        THEN [Q EXCEPT
                !.mem = IF result_id(e) \in DOMAIN Q.mem
                        THEN [Q.mem EXCEPT ![result_id(e)].state = "active",
                                           ![result_id(e)].content = e.memory]
                        ELSE (result_id(e) :> Memory(req.user, req.app, e.memory))
                               @@ Q.mem,
                !.alias = @ \cup {result_id(e)},
                !.hist = Append(@, MemoryStatusHistory(result_id(e), "deleted",
                                                       "active"))]
        ELSE IF e.event = "UPDATE" /\ e.id \in DOMAIN Q.mem
        THEN [Q EXCEPT
                !.md = ReRead(Q, e.id, env, v),
                !.mem = [@ EXCEPT ![e.id].content = e.memory],
                !.alias = @ \cup {e.id},
                !.hist = Append(@, MemoryStatusHistory(e.id, "active", "active"))]
        ELSE IF e.event = "DELETE" /\ e.id \in DOMAIN Q.mem
        THEN [Q EXCEPT
                !.mem = [@ EXCEPT ![e.id].state = "deleted",
                                  ![e.id].deleted_at = TRUE],
                !.hist = Append(@, MemoryStatusHistory(e.id, "active", "deleted"))]
        ELSE Q

RECURSIVE add_memories_events(_, _, _, _, _)
add_memories_events(S, es, req, env, v) ==
    IF es = <<>> THEN S
    ELSE add_memories_events(add_memories_event(S, Head(es), req, env, v),
                             Tail(es), req, env, v)

\* mcp_server.py:95-235, the try block: an exception of memory_client.add
\* or of db.commit() ends in "except Exception", which answers an error
\* string after db.close()
add_memories_failed(out, env) == out.raised \/ env.commit_fails

\* mcp_server.py:62-235
add_memories(req, env, lim) ==
    LET infer_value == Resolve(req.infer, env.cfg.default_infer)
        extract_value ==
            IF ~infer_value THEN FALSE
            ELSE Resolve(req.extract, env.cfg.default_extract)
        deduplicate_value ==
            IF ~infer_value THEN FALSE
            ELSE Resolve(req.deduplicate, env.cfg.default_deduplicate)
        rsp(status, client_add, raised, events, new_id, att_id) ==
            AddRsp("mcp", req, env.cfg, status, infer_value, extract_value,
                   deduplicate_value, client_add, raised, events, new_id, att_id)
        refused ==
            /\ last' = rsp("error", FALSE, FALSE, <<>>, NoId, NoId)
            /\ history' = <<>>
            /\ UNCHANGED <<mem, vec, att>>
    IN  IF ~env.client_up THEN refused
        ELSE IF ~is_active(env) THEN refused
        ELSE \E h \in add_memories_attachment(req.attachment_text,
                                              req.attachment_id, req.metadata) :
          IF h.status # "ok" THEN refused
          ELSE \E out \in ClientAdd(req.text, req.user, h.md, infer_value,
                                    extract_value, deduplicate_value, lim) :
                 LET S == add_memories_events(McpSession(h.md), out.results,
                                              req, env, out.vec)
                 IN  /\ vec' = out.vec
                     /\ IF add_memories_failed(out, env)
                        THEN /\ last' = rsp("error", TRUE, out.raised, out.results,
                                             NoId, h.id)
                             /\ history' = <<>>
                             /\ UNCHANGED <<mem, att>>
                        ELSE /\ mem' = Flush(S).mem
                             /\ att' = h.att
                             /\ history' = S.hist
                             /\ last' = rsp("ok", TRUE, out.raised, out.results,
                                             NoId, h.id)

(***************************************************************************)
(* Access control                                                          *)
(***************************************************************************)
Unrestricted == [all |-> TRUE, ids |-> {}]       \* the None result
Only(ids) == [all |-> FALSE, ids |-> ids]

\* memories.py:82-92: the loop over the rules, in the order fetched
RECURSIVE process_rules(_, _, _)
process_rules(rules, allowed, denied) ==
    IF rules = <<>> THEN [returned |-> FALSE, allowed |-> allowed, denied |-> denied]
    ELSE LET rule == Head(rules)
         IN  IF rule.effect = "allow"
             THEN IF rule.object_id # NoId
                  THEN process_rules(Tail(rules), allowed \cup {rule.object_id}, denied)
                  ELSE [returned |-> TRUE, value |-> Unrestricted]
             ELSE IF rule.effect = "deny"
             THEN IF rule.object_id # NoId
                  THEN process_rules(Tail(rules), allowed, denied \cup {rule.object_id})
                  ELSE [returned |-> TRUE, value |-> Only({})]
             ELSE process_rules(Tail(rules), allowed, denied)

\* get_accessible_memory_ids without "allowed_memory_ids -= denied_memory_ids"
get_accessible_memory_ids_keep_denied(app_id) ==
    LET app_access == SelectSeq(acl, LAMBDA r : r.subject_id = app_id)
        r == process_rules(app_access, {}, {})
    IN  IF app_access = <<>> THEN Unrestricted
        ELSE IF r.returned THEN r.value
        ELSE Only(r.allowed)

\* memories.py:61-98
get_accessible_memory_ids(app_id) ==
    LET app_access == SelectSeq(acl, LAMBDA r : r.subject_id = app_id)
        r == process_rules(app_access, {}, {})
    IN  IF app_access = <<>> THEN Unrestricted
        ELSE IF r.returned THEN r.value
        ELSE IF r.allowed # {} THEN Only(r.allowed \ r.denied)
        ELSE Only(r.allowed)

\* app/utils/permissions.py: the memory is active and the app's rules allow it
check_memory_access_permissions(rows, memory_id, app_id) ==
    /\ rows[memory_id].state = "active"
    /\ app_id # NoId =>
         LET a == get_accessible_memory_ids(app_id)
         IN  a.all \/ memory_id \in a.ids

(***************************************************************************)
(* routers/memories.py: state changes                                      *)
(***************************************************************************)
\* A transaction in progress: the rows and the history rows added.
Txn == [mem |-> mem, hist |-> <<>>, status |-> "200"]

\* memories.py:38-58, for a row that exists (get_memory_or_404 passed)
update_memory_state(T, memory_id, new_state) ==
    [T EXCEPT
       !.mem = [@ EXCEPT ![memory_id].state = new_state,
                         ![memory_id].deleted_at =
                             IF new_state = "deleted" THEN TRUE ELSE @],
       !.hist = Append(@, MemoryStatusHistory(memory_id, T.mem[memory_id].state,
                                              new_state))]

\* for memory_id in ids: update_memory_state(...).  Each call commits; a
\* missing row raises 404 and leaves the earlier ones committed.
RECURSIVE update_each(_, _, _)
update_each(T, ids, new_state) ==
    IF ids = <<>> THEN T
    ELSE IF Head(ids) \notin DOMAIN T.mem THEN [T EXCEPT !.status = "404"]
    ELSE update_each(update_memory_state(T, Head(ids), new_state), Tail(ids),
                     new_state)

\* the rows of a query, as a list
RECURSIVE AsSeq(_)
AsSeq(S) == IF S = {} THEN <<>>
            ELSE LET x == CHOOSE y \in S : TRUE IN <<x>> \o AsSeq(S \ {x})

\* memories.py:588-596
archive_memories(memory_ids) ==
    LET T == update_each(Txn, memory_ids, "archived")
    IN  /\ mem' = T.mem
        /\ history' = T.hist
        /\ last' = [op |-> "archive", surface |-> "rest",
                    memory_ids |-> memory_ids, status |-> T.status]
        /\ UNCHANGED <<vec, att>>

\* memories.py:609-678
pause_memories(req) ==
    LET state == IF req.state = NoId THEN "paused" ELSE req.state
        open == {m \in DOMAIN mem : mem[m].state \notin {"deleted", "archived"}}
        done(T) ==
            /\ mem' = T.mem
            /\ history' = T.hist
            /\ last' = [op |-> "pause", surface |-> "rest", req |-> req,
                        status |-> T.status]
            /\ UNCHANGED <<vec, att>>
    IN  IF req.user \notin Users
        THEN done([Txn EXCEPT !.status = "404"])
        ELSE IF req.global_pause
        THEN done(update_each(Txn, AsSeq(open), state))
        ELSE IF req.app_id # NoId
        THEN done(update_each(Txn,
                    AsSeq({m \in open : /\ mem[m].app_id = req.app_id
                                        /\ mem[m].user_id = req.user}), state))
        ELSE IF req.all_for_app /\ req.memory_ids # <<>>
        THEN done(update_each(Txn,
                    AsSeq({m \in DOMAIN mem : /\ mem[m].user_id = req.user
                                              /\ mem[m].state # "deleted"
                                              /\ m \in Range(req.memory_ids)}),
                    state))
        ELSE IF req.memory_ids # <<>>
        THEN done(update_each(Txn, req.memory_ids, state))
        ELSE IF req.category_ids # {}
        THEN done(update_each(Txn,
                    AsSeq({m \in open : mem[m].categories \cap req.category_ids # {}}),
                    state))
        ELSE done([Txn EXCEPT !.status = "400"])

(***************************************************************************)
(* delete_memories: REST and MCP                                           *)
(***************************************************************************)
\* memories.py:552-571 / mcp_server.py:602-621: the attachments table once
\* the attachments the given memories list are deleted
listed_attachments(ids) ==
    UNION {RefsIn(mem[m].attachment_ids) : m \in ids \cap DOMAIN mem}

\* delete_listed_attachments with the cascade left out
delete_no_attachments(ids) == att

delete_listed_attachments(ids) == WithoutAll(att, listed_attachments(ids))

\* memory_client.delete(id): the point is gone, unless the call raises
ClientDelete(v, id, env) == IF id \in env.vec_fail THEN v ELSE Without(v, id)

\* memories.py:574-582.  D.att: the attachments table as committed,
\* D.pending: as the session holds it, D.calls: memory_client.delete calls
RECURSIVE delete_memories_loop(_, _, _)
delete_memories_loop(D, ids, env) ==
    IF ids = <<>> THEN D
    ELSE LET id == Head(ids)
             D1 == [D EXCEPT !.vec = ClientDelete(@, id, env),
                             !.calls = Append(@, id)]
         IN  IF id \notin DOMAIN D.mem
             THEN [D1 EXCEPT !.status = "404"]
             ELSE delete_memories_loop(
                    [update_memory_state(D1, id, "deleted") EXCEPT !.att = D.pending],
                    Tail(ids), env)

\* memories.py:525-584
delete_memories(req, env) ==
    LET rsp(status, calls) ==
            [op |-> "delete", surface |-> "rest", req |-> req, env |-> env,
             status |-> status, calls |-> calls,
             deleted |-> Range(req.memory_ids),
             listed |-> listed_attachments(Range(req.memory_ids)),
             missing |-> listed_attachments(Range(req.memory_ids)) \ DOMAIN att]
    IN  IF req.user \notin Users \/ ~env.client_up
        THEN /\ last' = rsp(IF req.user \notin Users THEN "404" ELSE "503", <<>>)
             /\ history' = <<>>
             /\ UNCHANGED <<mem, vec, att>>
        ELSE LET pending == IF req.delete_attachments
                            THEN delete_listed_attachments(Range(req.memory_ids))
                            ELSE att
                 D == delete_memories_loop(
                        [mem |-> mem, hist |-> <<>>, status |-> "200", vec |-> vec,
                         att |-> att, pending |-> pending, calls |-> <<>>],
                        req.memory_ids, env)
             IN  /\ mem' = D.mem
                 /\ vec' = D.vec
                 /\ att' = D.att
                 /\ history' = D.hist
                 /\ last' = rsp(D.status, D.calls)

\* mcp_delete_vectors with the loop cut short: only the first memory's
\* point is deleted
mcp_delete_first_vector(v, ids, env) ==
    IF ids = <<>> THEN v ELSE ClientDelete(v, Head(ids), env)

\* mcp_server.py:623-655, for the accessible memories
RECURSIVE mcp_delete_vectors(_, _, _)
mcp_delete_vectors(v, ids, env) ==
    IF ids = <<>> THEN v
    ELSE mcp_delete_vectors(ClientDelete(v, Head(ids), env), Tail(ids), env)

RECURSIVE mcp_mark_deleted(_, _)
mcp_mark_deleted(T, ids) ==
    IF ids = <<>> THEN T
    ELSE mcp_mark_deleted(
           [T EXCEPT !.mem = [@ EXCEPT ![Head(ids)].state = "deleted",
                                       ![Head(ids)].deleted_at = TRUE],
                     !.hist = Append(@, MemoryStatusHistory(Head(ids), "active",
                                                            "deleted"))],
           Tail(ids))

\* mcp_server.py:564-663
mcp_delete_memories(req, env) ==
    LET memory_uuids ==
            SelectSeq(req.memory_ids,
                      LAMBDA m : /\ m \in DOMAIN mem
                                 /\ check_memory_access_permissions(mem, m, req.app))
        rsp(status, calls) ==
            [op |-> "delete", surface |-> "mcp", req |-> req, env |-> env,
             status |-> status, calls |-> calls,
             deleted |-> Range(memory_uuids),
             listed |-> listed_attachments(Range(memory_uuids)),
             missing |-> listed_attachments(Range(memory_uuids)) \ DOMAIN att]
    IN  IF ~env.client_up \/ memory_uuids = <<>>
        THEN /\ last' = rsp("error", <<>>)
             /\ history' = <<>>
             /\ UNCHANGED <<mem, vec, att>>
        ELSE LET T == mcp_mark_deleted(Txn, memory_uuids)
             IN  /\ vec' = mcp_delete_vectors(vec, memory_uuids, env)
                 /\ IF env.commit_fails
                    THEN /\ last' = rsp("error", memory_uuids)
                         /\ history' = <<>>
                         /\ UNCHANGED <<mem, att>>
                    ELSE /\ mem' = T.mem
                         /\ att' = IF req.delete_attachments
                                   THEN delete_listed_attachments(Range(memory_uuids))
                                   ELSE att
                         /\ history' = T.hist
                         /\ last' = rsp("ok", memory_uuids)

\* mcp_server.py:426-511
delete_all_memories(req, env) ==
    LET accessible_memory_ids ==
            AsSeq({m \in DOMAIN mem :
                      /\ mem[m].user_id = req.user
                      /\ check_memory_access_permissions(mem, m, req.app)})
        rsp(status, calls) ==
            [op |-> "delete_all", surface |-> "mcp", req |-> req, env |-> env,
             status |-> status, calls |-> calls,
             deleted |-> Range(accessible_memory_ids),
             listed |-> listed_attachments(Range(accessible_memory_ids)),
             missing |-> listed_attachments(Range(accessible_memory_ids)) \ DOMAIN att]
    IN  IF ~env.client_up
        THEN /\ last' = rsp("error", <<>>)
             /\ history' = <<>>
             /\ UNCHANGED <<mem, vec, att>>
        ELSE LET T == mcp_mark_deleted(Txn, accessible_memory_ids)
             IN  /\ vec' = mcp_delete_vectors(vec, accessible_memory_ids, env)
                 /\ IF env.commit_fails
                    THEN /\ last' = rsp("error", accessible_memory_ids)
                         /\ history' = <<>>
                         /\ UNCHANGED <<mem, att>>
                    ELSE /\ mem' = T.mem
                         /\ att' = IF req.delete_attachments
                                   THEN delete_listed_attachments(
                                            Range(accessible_memory_ids))
                                   ELSE att
                         /\ history' = T.hist
                         /\ last' = rsp("ok", accessible_memory_ids)

(***************************************************************************)
(* Retrieval                                                               *)
(***************************************************************************)
\* search_memory with the filter on the accessible ids left out
search_memory_unfiltered(req, env) ==
    /\ env.hits \subseteq PointsOf(vec, req.user)
    /\ last' = [op |-> "search", surface |-> "mcp", req |-> req,
                status |-> IF env.client_up THEN "ok" ELSE "error",
                hits |-> env.hits,
                results |-> IF env.client_up THEN env.hits ELSE {}]
    /\ history' = <<>>
    /\ UNCHANGED <<mem, vec, att>>

\* search_memory with the allowed set taken from every row of the user,
\* the permission check left out
search_memory_any_row(req, env) ==
    LET user_memories == {m \in DOMAIN mem : mem[m].user_id = req.user}
    IN  /\ env.hits \subseteq PointsOf(vec, req.user)
        /\ last' = [op |-> "search", surface |-> "mcp", req |-> req,
                    status |-> IF ~env.client_up \/ (user_memories = {} /\ env.hits # {})
                               THEN "error" ELSE "ok",
                    hits |-> env.hits,
                    results |-> IF ~env.client_up \/ user_memories = {}
                                THEN {} ELSE env.hits \cap user_memories]
        /\ history' = <<>>
        /\ UNCHANGED <<mem, vec, att>>

\* "memory_record.metadata_" as a condition: a dict with no key is false
metadata_truthy(row) == row.keys # {} \/ row.attachment_ids.kind # "absent"

\* result["metadata"]: has: the key is set; keys and attachment_ids: what
\* the object holds
NoMetadata == [has |-> FALSE, keys |-> {}, attachment_ids |-> NoKey]

\* mcp_server.py:307-331 without agent_id: the row of a hit is looked up
\* when a flag is set, and its metadata_ is copied whole (include_metadata)
\* or cut down to attachment_ids, [] when the key is missing
search_memory_metadata(include_metadata, attachment_ids_value, row) ==
    IF include_metadata /\ metadata_truthy(row)
    THEN [has |-> TRUE, keys |-> row.keys, attachment_ids |-> row.attachment_ids]
    ELSE IF attachment_ids_value /\ metadata_truthy(row)
    THEN [has |-> TRUE, keys |-> {},
          attachment_ids |-> IF row.attachment_ids.kind = "absent"
                             THEN IdList(<<>>) ELSE row.attachment_ids]
    ELSE NoMetadata

\* mcp_server.py:239-353.  hits: the points vector_store.search returns.
search_memory(req, env) ==
    LET accessible_memory_ids ==
            {m \in DOMAIN mem : /\ mem[m].user_id = req.user
                                /\ check_memory_access_permissions(mem, m, req.app)}
        \* allowed = set(...) if accessible_memory_ids else None
        allowed_is_none == accessible_memory_ids = {}
        attachment_ids_value ==
            Resolve(req.attachment_ids_show, env.default_attachment_ids_show)
        results(ids) ==
            [h \in ids |-> search_memory_metadata(req.include_metadata,
                                                  attachment_ids_value, mem[h])]
        rsp(status, ids) ==
            [op |-> "search", surface |-> "mcp", req |-> req, status |-> status,
             hits |-> env.hits, results |-> ids, records |-> results(ids),
             attachment_ids_value |-> attachment_ids_value]
    IN  /\ env.hits \subseteq PointsOf(vec, req.user)
        /\ IF ~env.client_up
           THEN last' = rsp("error", {})
           \* "h.id not in allowed" with allowed = None raises TypeError
           ELSE IF allowed_is_none /\ env.hits # {}
           THEN last' = rsp("error", {})
           ELSE last' = rsp("ok", {h \in env.hits : h \in accessible_memory_ids})
        /\ history' = <<>>
        /\ UNCHANGED <<mem, vec, att>>

\* mcp_server.py:357-422.  memory_client.get_all returns the user's points.
mcp_list_memories(req, env) ==
    LET accessible_memory_ids ==
            {m \in DOMAIN mem : /\ mem[m].user_id = req.user
                                /\ check_memory_access_permissions(mem, m, req.app)}
        memories == PointsOf(vec, req.user)
    IN  /\ last' = [op |-> "list", surface |-> "mcp", req |-> req,
                    client_up |-> env.client_up,
                    status |-> IF env.client_up THEN "ok" ELSE "error",
                    results |-> IF env.client_up
                                THEN memories \cap accessible_memory_ids
                                ELSE {}]
        /\ history' = <<>>
        /\ UNCHANGED <<mem, vec, att>>

\* str.lower() on the sort directions drawn
Lower(d) == IF d = "DESC" THEN "desc" ELSE d

\* the sort block with the column looked up whatever the direction is
sort_status_column_first(req, sort_mapping) ==
    IF req.sort_column # NoId /\ req.sort_column \notin sort_mapping THEN "400"
    ELSE IF req.sort_direction # NoId /\ Lower(req.sort_direction) \notin {"asc", "desc"}
    THEN "400"
    ELSE "ok"

\* attachments.py:200-211, memories.py:784-796: "if request.sort_column and
\* request.sort_direction": the direction, then the column, is checked
\* against its list; with either of them missing the default order is used
sort_status(req, sort_mapping) ==
    IF req.sort_column # NoId /\ req.sort_direction # NoId
    THEN IF Lower(req.sort_direction) \notin {"asc", "desc"} THEN "400"
         ELSE IF req.sort_column \notin sort_mapping THEN "400"
         ELSE "ok"
    ELSE "ok"

\* attachments.py:205-209
AttachmentSortMapping == {"created_at", "updated_at", "size"}

\* memories.py:789-793
MemorySortMapping == {"memory", "app_name", "created_at"}

\* memories.py:160-164: getattr(Memory, sort_column, None); a name that is
\* no attribute of Memory gives None and the query is left unsorted
list_memories_sort_status(req) == "ok"

Min(a, b) == IF a < b THEN a ELSE b
Max(a, b) == IF a > b THEN a ELSE b

\* attachments.py:153-258.  The rows are not filtered (no search_query, no
\* dates).  pages divides by request.size; the offset (page - 1) * size is
\* negative for page 0, which PostgreSQL refuses and SQLite reads as 0
\* (env.negative_offset_fails).  items: how many rows the page holds.
filter_attachments(req, env) ==
    LET total == Cardinality(DOMAIN att)
        offset == (req.page - 1) * req.size
        rsp(status, pages, items) ==
            [op |-> "filter_attachments", surface |-> "rest", req |-> req,
             status |-> status, total |-> total, pages |-> pages, items |-> items]
    IN  /\ IF sort_status(req, AttachmentSortMapping) # "ok"
           THEN last' = rsp("400", 0, 0)
           \* ZeroDivisionError
           ELSE IF total > 0 /\ req.size = 0
           THEN last' = rsp("500", 0, 0)
           ELSE IF offset < 0 /\ env.negative_offset_fails
           THEN last' = rsp("500", 0, 0)
           ELSE last' = rsp("200",
                            IF total > 0 THEN (total + req.size - 1) \div req.size ELSE 1,
                            Min(req.size, Max(0, total - Max(0, offset))))
        /\ history' = <<>>
        /\ UNCHANGED <<mem, vec, att>>

\* memories.py:102-180.  The order of the rows is not modelled, only
\* whether the sort parameters are accepted.
list_memories(req) ==
    LET rows == {m \in DOMAIN mem : /\ mem[m].user_id = req.user
                                    /\ mem[m].state # "deleted"
                                    /\ mem[m].state # "archived"
                                    /\ req.app_id # NoId => mem[m].app_id = req.app_id}
        filtered_items ==
            {m \in rows : check_memory_access_permissions(mem, m, req.app_id)}
        status == IF req.user \notin Users THEN "404"
                  ELSE IF list_memories_sort_status(req) # "ok" THEN "400"
                  ELSE "200"
    IN  /\ last' = [op |-> "list", surface |-> "rest", req |-> req,
                    status |-> status,
                    results |-> IF status = "200" THEN filtered_items ELSE {}]
        /\ history' = <<>>
        /\ UNCHANGED <<mem, vec, att>>

\* memories.py:739-830
filter_memories(req) ==
    LET rows == {m \in DOMAIN mem : /\ mem[m].user_id = req.user
                                    /\ mem[m].state # "deleted"
                                    /\ ~req.show_archived => mem[m].state # "archived"}
        status == IF req.user \notin Users THEN "404"
                  ELSE IF sort_status(req, MemorySortMapping) # "ok" THEN "400"
                  ELSE "200"
    IN  /\ last' = [op |-> "filter", surface |-> "rest", req |-> req,
                    status |-> status,
                    results |-> IF status = "200" THEN rows ELSE {}]
        /\ history' = <<>>
        /\ UNCHANGED <<mem, vec, att>>

(***************************************************************************)
(* Requests and collaborator answers the specifications draw from.         *)
(***************************************************************************)
Config(i, e, d) ==
    [default_infer |-> i, default_extract |-> e, default_deduplicate |-> d]

AddReq(user, app, text, metadata, infer, extract, deduplicate, atext, aid) ==
    [user |-> user, app |-> app, text |-> text, metadata |-> metadata,
     infer |-> infer, extract |-> extract, deduplicate |-> deduplicate,
     attachment_text |-> atext, attachment_id |-> aid]

AddEnv(cfg, app_active, client_up, commit_fails, autoflush, get_raises) ==
    [cfg |-> cfg, app_active |-> app_active, client_up |-> client_up,
     commit_fails |-> commit_fails, autoflush |-> autoflush,
     get_raises |-> get_raises]

AllKinds == {"ADD", "UPDATE", "DELETE", "NONE"}

PauseReq(user, global_pause, app_id, all_for_app, memory_ids, category_ids, state) ==
    [user |-> user, global_pause |-> global_pause, app_id |-> app_id,
     all_for_app |-> all_for_app, memory_ids |-> memory_ids,
     category_ids |-> category_ids, state |-> state]

\* One more request is served.  Every handler is an "async def" without
\* an await: the event loop runs it from its first line to its return, so
\* it starts only when the loop runs no other handler.  The access rules
\* are not edited by any handler modelled here.
Served ==
    /\ loop = Idle
    /\ served < MaxRequests
    /\ served' = served + 1
    /\ UNCHANGED <<acl, loop>>

Succeeded(l) == l.status \in {"200", "201", "204", "ok"}

(***************************************************************************)
(* Spec: ingestion.  One user and one app add memories on both surfaces,   *)
(* with and without an attachment; the memory client answers with up to    *)
(* MaxEvents events of any kind; the commit may fail.                      *)
(***************************************************************************)
IngestReqs ==
    {AddReq("u1", "app1", "t1", NoKey, i, "null", "null", a[1], a[2]) :
        i \in {"true", "false"},
        a \in {<<NoText, NoId>>, <<Small, "a1">>, <<NoText, "a1">>}}

IngestEnvs ==
    {AddEnv(Config(TRUE, TRUE, TRUE), TRUE, TRUE, cf, af, FALSE) :
        cf \in BOOLEAN, af \in BOOLEAN}

IngestLim ==
    [events |-> MaxEvents, facts |-> Facts, kinds |-> AllKinds,
     merged |-> {NoKey, IdList(<<>>), IdList(<<"a1">>)}, raises |-> FALSE]

RestAdd ==
    /\ Served
    /\ \E req \in IngestReqs, env \in IngestEnvs : create_memory(req, env, IngestLim)

McpAdd ==
    /\ Served
    /\ \E req \in IngestReqs, env \in IngestEnvs : add_memories(req, env, IngestLim)

Next == RestAdd \/ McpAdd

Spec == Init /\ [][Next]_vars

(***************************************************************************)
(* SpecStore: adds and deletes that all complete: no commit fails and no   *)
(* vector-store deletion fails.                                            *)
(***************************************************************************)
StoreReqs ==
    {AddReq("u1", "app1", "t1", NoKey, i, "null", "null", NoText, NoId) :
        i \in {"true", "false"}}

StoreEnvs == {AddEnv(Config(TRUE, TRUE, TRUE), TRUE, TRUE, FALSE, TRUE, FALSE)}

StoreLim ==
    [events |-> MaxEvents, facts |-> Facts, kinds |-> AllKinds,
     merged |-> {NoKey}, raises |-> FALSE]

StoreDeleteReqs ==
    {[user |-> "u1", app |-> "app1", memory_ids |-> ids, delete_attachments |-> FALSE] :
        ids \in SeqsUpTo(MemoryIds, MaxIdList)}

StoreDeleteEnvs == {[client_up |-> TRUE, commit_fails |-> FALSE, vec_fail |-> {}]}

StoreRestAdd ==
    /\ Served
    /\ \E req \in StoreReqs, env \in StoreEnvs : create_memory(req, env, StoreLim)

StoreMcpAdd ==
    /\ Served
    /\ \E req \in StoreReqs, env \in StoreEnvs : add_memories(req, env, StoreLim)

StoreRestDelete ==
    /\ Served
    /\ \E req \in StoreDeleteReqs, env \in StoreDeleteEnvs : delete_memories(req, env)

StoreMcpDelete ==
    /\ Served
    /\ \E req \in StoreDeleteReqs, env \in StoreDeleteEnvs : mcp_delete_memories(req, env)

StoreMcpDeleteAll ==
    /\ Served
    /\ \E env \in StoreDeleteEnvs :
          delete_all_memories([user |-> "u1", app |-> "app1",
                               delete_attachments |-> FALSE], env)

NextStore ==
    \/ StoreRestAdd \/ StoreMcpAdd
    \/ StoreRestDelete \/ StoreMcpDelete \/ StoreMcpDeleteAll

SpecStore == Init /\ [][NextStore]_vars

(***************************************************************************)
(* SpecLifecycle: memories are added (the client only ever ADDs), then    *)
(* deleted, archived, paused and retrieved.  A vector-store deletion or    *)
(* the commit of an MCP delete may fail.                                   *)
(***************************************************************************)
LifeReqs ==
    {AddReq("u1", "app1", "t1", NoKey, i, "null", "null", a[1], a[2]) :
        i \in {"true", "false"},
        a \in {<<NoText, NoId>>, <<Small, "a1">>, <<NoText, "a1">>}}

LifeEnvs == {AddEnv(Config(TRUE, TRUE, FALSE), TRUE, TRUE, FALSE, TRUE, FALSE)}

LifeLim ==
    [events |-> MaxEvents, facts |-> Facts, kinds |-> {"ADD"},
     merged |-> {NoKey}, raises |-> FALSE]

DeleteReqs ==
    {[user |-> "u1", app |-> "app1", memory_ids |-> ids, delete_attachments |-> da] :
        ids \in SeqsUpTo(MemoryIds, MaxIdList), da \in BOOLEAN}

DeleteEnvs ==
    {[client_up |-> TRUE, commit_fails |-> cf, vec_fail |-> vf] :
        cf \in BOOLEAN, vf \in {{}, MemoryIds}}

PauseReqs ==
    UNION {{PauseReq("u1", TRUE, NoId, FALSE, <<>>, {}, st),
            PauseReq("u1", FALSE, "app1", FALSE, <<>>, {}, st),
            PauseReq("u1", FALSE, NoId, TRUE, <<"m1">>, {}, st),
            PauseReq("u1", FALSE, NoId, FALSE, <<"m1">>, {}, st),
            PauseReq("u1", FALSE, NoId, FALSE, <<>>, {"c1"}, st),
            PauseReq("u1", FALSE, NoId, FALSE, <<>>, {}, st)} :
           st \in {NoId, "active"}}

SearchReqs ==
    {[user |-> "u1", app |-> "app1", include_metadata |-> FALSE,
      attachment_ids_show |-> "null"]}
ListReqs ==
    {[user |-> "u1", app_id |-> a, sort_column |-> NoId, sort_direction |-> NoId] :
        a \in {NoId, "app1"}}
FilterReqs ==
    {[user |-> "u1", show_archived |-> b, sort_column |-> NoId,
      sort_direction |-> NoId] : b \in BOOLEAN}

LifeRestAdd ==
    /\ Served
    /\ \E req \in LifeReqs, env \in LifeEnvs : create_memory(req, env, LifeLim)

LifeMcpAdd ==
    /\ Served
    /\ \E req \in LifeReqs, env \in LifeEnvs : add_memories(req, env, LifeLim)

RestDelete ==
    /\ Served
    /\ \E req \in DeleteReqs, env \in DeleteEnvs : delete_memories(req, env)

McpDelete ==
    /\ Served
    /\ \E req \in DeleteReqs, env \in DeleteEnvs : mcp_delete_memories(req, env)

Archive ==
    /\ Served
    /\ \E ids \in SeqsUpTo(MemoryIds, MaxIdList) : archive_memories(ids)

Pause ==
    /\ Served
    /\ \E req \in PauseReqs : pause_memories(req)

Search ==
    /\ Served
    /\ \E req \in SearchReqs, hits \in SUBSET MemoryIds :
          search_memory(req, [client_up |-> TRUE, hits |-> hits, default_attachment_ids_show |-> FALSE])

List ==
    /\ Served
    /\ \E req \in ListReqs : list_memories(req)

Filter ==
    /\ Served
    /\ \E req \in FilterReqs : filter_memories(req)

NextLifecycle ==
    \/ LifeRestAdd \/ LifeMcpAdd \/ RestDelete \/ McpDelete
    \/ Archive \/ Pause \/ Search \/ List \/ Filter

SpecLifecycle == Init /\ [][NextLifecycle]_vars

(***************************************************************************)
(* SpecAttach: every path that writes attachment content, with contents    *)
(* below, at and above the size ceiling.                                   *)
(***************************************************************************)
AttachContents == {Small, AtCeiling, OverCeiling, WideOver}

AttachReqs ==
    {AddReq("u1", "app1", "t1", NoKey, "false", "null", "null", c, id) :
        c \in AttachContents, id \in {NoId, "a1"}}

AttachEnvs == {AddEnv(Config(TRUE, TRUE, TRUE), TRUE, TRUE, FALSE, TRUE, FALSE)}

AttachLim ==
    [events |-> MaxEvents, facts |-> Facts, kinds |-> {"ADD"},
     merged |-> {NoKey}, raises |-> FALSE]

RestCreateAttachment ==
    /\ Served
    /\ \E c \in AttachContents, id \in AttIds \cup {NoId} : create_attachment(c, id)

RestUpdateAttachment ==
    /\ Served
    /\ \E c \in AttachContents, id \in AttIds : update_attachment(id, c)

RestDeleteAttachment ==
    /\ Served
    /\ \E id \in AttIds : delete_attachment(id)

McpCreateAttachment ==
    /\ Served
    /\ \E c \in AttachContents, id \in AttIds \cup {NoId} : mcp_create_attachment(c, id)

McpUpdateAttachment ==
    /\ Served
    /\ \E c \in AttachContents, id \in AttIds : mcp_update_attachment(id, c)

McpDeleteAttachment ==
    /\ Served
    /\ \E id \in AttIds : mcp_delete_attachment(id)

AttachRestAdd ==
    /\ Served
    /\ \E req \in AttachReqs, env \in AttachEnvs : create_memory(req, env, AttachLim)

AttachMcpAdd ==
    /\ Served
    /\ \E req \in AttachReqs, env \in AttachEnvs : add_memories(req, env, AttachLim)

NextAttach ==
    \/ RestCreateAttachment \/ RestUpdateAttachment \/ RestDeleteAttachment
    \/ McpCreateAttachment \/ McpUpdateAttachment \/ McpDeleteAttachment
    \/ AttachRestAdd \/ AttachMcpAdd

SpecAttach == Init /\ [][NextAttach]_vars

(***************************************************************************)
(* SpecAcl: the access_controls table holds up to MaxRules rules, in the   *)
(* order the query returns them.  Memories are added over MCP (the commit  *)
(* may fail and leave a point without a row); the rules are evaluated for  *)
(* an app, and memories are searched and listed through an app.            *)
(***************************************************************************)
\* AccessControl(subject_type=app, subject_id, object_type=memory, object_id, effect)
AccessControl(subject_id, object_id, effect) ==
    [subject_id |-> subject_id, object_id |-> object_id, effect |-> effect]

AclRules ==
    {AccessControl("app1", o, e) : o \in {NoId} \cup MemoryIds, e \in {"allow", "deny"}}
        \cup {AccessControl("app2", NoId, "deny")}

InitAcl ==
    /\ mem = <<>>
    /\ vec = <<>>
    /\ att = <<>>
    /\ acl \in SeqsUpTo(AclRules, MaxRules)
    /\ history = <<>>
    /\ last = [op |-> "init"]
    /\ served = 0
    /\ loop = Idle

AclReqs == {AddReq("u1", "app1", "t1", NoKey, "false", "null", "null", NoText, NoId)}

AclEnvs ==
    {AddEnv(Config(TRUE, TRUE, TRUE), TRUE, TRUE, cf, TRUE, FALSE) : cf \in BOOLEAN}

AclLim ==
    [events |-> MaxEvents, facts |-> Facts, kinds |-> {"ADD"},
     merged |-> {NoKey}, raises |-> FALSE]

AclSearchReqs ==
    {[user |-> "u1", app |-> a, include_metadata |-> FALSE,
      attachment_ids_show |-> "null"] : a \in Apps}

AclListReqs ==
    {[user |-> "u1", app_id |-> a, sort_column |-> NoId, sort_direction |-> NoId] :
        a \in Apps}

\* get_accessible_memory_ids(db, app_id), applied to the rules as they are
AclEvaluate ==
    /\ Served
    /\ \E app \in Apps :
          last' = [op |-> "acl", app |-> app,
                   rules |-> SelectSeq(acl, LAMBDA r : r.subject_id = app),
                   result |-> get_accessible_memory_ids(app)]
    /\ history' = <<>>
    /\ UNCHANGED <<mem, vec, att>>

AclMcpAdd ==
    /\ Served
    /\ \E req \in AclReqs, env \in AclEnvs : add_memories(req, env, AclLim)

AclSearch ==
    /\ Served
    /\ \E req \in AclSearchReqs, hits \in SUBSET MemoryIds :
          search_memory(req, [client_up |-> TRUE, hits |-> hits, default_attachment_ids_show |-> FALSE])

AclList ==
    /\ Served
    /\ \E req \in AclListReqs : list_memories(req)

NextAcl == AclEvaluate \/ AclMcpAdd \/ AclSearch \/ AclList

SpecAcl == InitAcl /\ [][NextAcl]_vars

(***************************************************************************)
(* SpecLoop: one server process.  The handlers are coroutines of its event *)
(* loop; create_memory and add_memories call memory_client.add as a plain  *)
(* function (no await, no executor), so from the entry of an add to its    *)
(* return the loop runs that handler and nothing else.  An add is two      *)
(* steps here, its entry and its return, with the LLM call in between.     *)
(***************************************************************************)
LoopReqs ==
    {AddReq("u1", "app1", t, NoKey, i, "null", "null", NoText, NoId) :
        t \in Texts, i \in {"true", "false"}}

LoopEnvs == {AddEnv(Config(TRUE, TRUE, TRUE), TRUE, TRUE, FALSE, TRUE, FALSE)}

LoopLim ==
    [events |-> MaxEvents, facts |-> Facts, kinds |-> {"ADD", "UPDATE"},
     merged |-> {NoKey}, raises |-> FALSE]

\* the event loop starts the handler of an add
AddEnters ==
    /\ loop = Idle
    /\ served < MaxRequests
    /\ \E surface \in {"rest", "mcp"}, req \in LoopReqs, env \in LoopEnvs :
          loop' = [op |-> "add", surface |-> surface, req |-> req, env |-> env]
    /\ UNCHANGED <<mem, vec, att, acl, history, last, served>>

\* the handler runs to its return and gives the loop back
AddReturns ==
    /\ loop # Idle
    /\ IF loop.surface = "rest"
       THEN create_memory(loop.req, loop.env, LoopLim)
       ELSE add_memories(loop.req, loop.env, LoopLim)
    /\ loop' = Idle
    /\ served' = served + 1
    /\ UNCHANGED acl

LoopSearch ==
    /\ Served
    /\ \E req \in SearchReqs, hits \in SUBSET MemoryIds :
          search_memory(req, [client_up |-> TRUE, hits |-> hits, default_attachment_ids_show |-> FALSE])

NextLoop == AddEnters \/ AddReturns \/ LoopSearch

SpecLoop == Init /\ [][NextLoop]_vars

(***************************************************************************)
(* SpecDegraded: the memory client may fail to initialise at any request,  *)
(* and app2 is paused.  Memories are added through both apps, listed and   *)
(* searched; attachments are created, read, updated and deleted.           *)
(***************************************************************************)
\* the apps whose is_active flag is false
PausedApps == {"app2"}

DegradedReqs ==
    {AddReq("u1", app, "t1", NoKey, i, "null", "null", a[1], a[2]) :
        app \in Apps, i \in {"true", "false"},
        a \in {<<NoText, NoId>>, <<Small, "a1">>}}

\* the app's flag as the table holds it; the client up or down
DegradedEnv(req, client_up) ==
    AddEnv(Config(TRUE, TRUE, TRUE), req.app \notin PausedApps, client_up,
           FALSE, TRUE, FALSE)

DegradedLim ==
    [events |-> MaxEvents, facts |-> Facts, kinds |-> {"ADD"},
     merged |-> {NoKey}, raises |-> FALSE]

DegradedContents == {Small, OverCeiling}

DegradedRestAdd ==
    /\ Served
    /\ \E req \in DegradedReqs, up \in BOOLEAN :
          create_memory(req, DegradedEnv(req, up), DegradedLim)

DegradedMcpAdd ==
    /\ Served
    /\ \E req \in DegradedReqs, up \in BOOLEAN :
          add_memories(req, DegradedEnv(req, up), DegradedLim)

DegradedSearch ==
    /\ Served
    /\ \E req \in SearchReqs, hits \in SUBSET MemoryIds, up \in BOOLEAN :
          search_memory(req, [client_up |-> up, hits |-> hits,
                              default_attachment_ids_show |-> FALSE])

DegradedRestList ==
    /\ Served
    /\ \E req \in ListReqs : list_memories(req)

DegradedMcpList ==
    /\ Served
    /\ \E req \in SearchReqs, up \in BOOLEAN :
          mcp_list_memories(req, [client_up |-> up])

DegradedRestCreateAttachment ==
    /\ Served
    /\ \E c \in DegradedContents, id \in AttIds \cup {NoId} : create_attachment(c, id)

DegradedRestGetAttachment ==
    /\ Served
    /\ \E id \in AttIds : get_attachment(id)

DegradedRestUpdateAttachment ==
    /\ Served
    /\ \E c \in DegradedContents, id \in AttIds : update_attachment(id, c)

DegradedRestDeleteAttachment ==
    /\ Served
    /\ \E id \in AttIds : delete_attachment(id)

DegradedMcpCreateAttachment ==
    /\ Served
    /\ \E c \in DegradedContents, id \in AttIds \cup {NoId} :
          mcp_create_attachment(c, id)

DegradedMcpGetAttachment ==
    /\ Served
    /\ \E id \in AttIds : mcp_get_attachment(id)

DegradedMcpUpdateAttachment ==
    /\ Served
    /\ \E c \in DegradedContents, id \in AttIds : mcp_update_attachment(id, c)

DegradedMcpDeleteAttachment ==
    /\ Served
    /\ \E id \in AttIds : mcp_delete_attachment(id)

NextDegraded ==
    \/ DegradedRestAdd \/ DegradedMcpAdd \/ DegradedSearch
    \/ DegradedRestList \/ DegradedMcpList
    \/ DegradedRestCreateAttachment \/ DegradedRestGetAttachment
    \/ DegradedRestUpdateAttachment \/ DegradedRestDeleteAttachment
    \/ DegradedMcpCreateAttachment \/ DegradedMcpGetAttachment
    \/ DegradedMcpUpdateAttachment \/ DegradedMcpDeleteAttachment

SpecDegraded == Init /\ [][NextDegraded]_vars

(***************************************************************************)
(* SpecEngine: the ingestion engine with a memory client that may raise.   *)
(* One user adds memories on both surfaces, on the fast path and on the    *)
(* inference path, with and without an attachment; memory_client.add       *)
(* answers with up to MaxEvents events of any kind or raises after it has  *)
(* written some of them to the vector store.  The requests are those of   *)
(* Spec (IngestReqs); every commit succeeds (StoreEnvs).                   *)
(***************************************************************************)
EngineLim ==
    [events |-> MaxEvents, facts |-> Facts, kinds |-> AllKinds,
     merged |-> {NoKey, IdList(<<"a1">>)}, raises |-> TRUE]

EngineRestAdd ==
    /\ Served
    /\ \E req \in IngestReqs, env \in StoreEnvs : create_memory(req, env, EngineLim)

EngineMcpAdd ==
    /\ Served
    /\ \E req \in IngestReqs, env \in StoreEnvs : add_memories(req, env, EngineLim)

NextEngine == EngineRestAdd \/ EngineMcpAdd

SpecEngine == Init /\ [][NextEngine]_vars

(***************************************************************************)
(* SpecMetadata: adds whose caller supplies metadata of its own.  The      *)
(* metadata of a request is a free-form dict (CreateMemoryRequest.metadata *)
(* : dict, add_memories metadata: Optional[dict]); its "attachment_ids"    *)
(* key is absent, a list, a list that names an id twice, or one string.    *)
(***************************************************************************)
CallerMetadata ==
    {NoKey, IdList(<<"a1">>), IdList(<<"a1", "a1">>), Scalar("a1")}

MetadataReqs ==
    {AddReq("u1", "app1", "t1", md, i, "null", "null", a[1], a[2]) :
        md \in CallerMetadata, i \in {"true", "false"},
        a \in {<<NoText, NoId>>, <<Small, "a2">>}}

MetadataLim ==
    [events |-> 1, facts |-> Facts, kinds |-> {"ADD", "UPDATE"},
     merged |-> {NoKey, IdList(<<"a1">>), IdList(<<"a2">>), IdList(<<"a1", "a2">>)},
     raises |-> FALSE]

MetadataRestAdd ==
    /\ Served
    /\ \E req \in MetadataReqs, env \in StoreEnvs :
          create_memory(req, env, MetadataLim)

MetadataMcpAdd ==
    /\ Served
    /\ \E req \in MetadataReqs, env \in StoreEnvs :
          add_memories(req, env, MetadataLim)

NextMetadata == MetadataRestAdd \/ MetadataMcpAdd

SpecMetadata == Init /\ [][NextMetadata]_vars

(***************************************************************************)
(* SpecParams: adds under every combination of the request's infer,        *)
(* extract and deduplicate (null, true, false) and of the three configured *)
(* defaults.  The user exists, the app is active and the memory client is  *)
(* up, so every call resolves its parameters.                              *)
(***************************************************************************)
Tristate == {"null", "true", "false"}

ParamsReqs ==
    {AddReq("u1", "app1", "t1", NoKey, i, e, d, NoText, NoId) :
        i \in Tristate, e \in Tristate, d \in Tristate}

\* memory_client.config is one object of the process: the first call finds
\* any defaults, the later ones the same
ParamsEnvs ==
    {AddEnv(cfg, TRUE, TRUE, FALSE, TRUE, FALSE) :
        cfg \in IF last.op = "add" THEN {last.cfg}
                ELSE {Config(i, e, d) : i \in BOOLEAN, e \in BOOLEAN, d \in BOOLEAN}}

ParamsLim ==
    [events |-> 1, facts |-> Facts, kinds |-> {"ADD", "NONE"},
     merged |-> {NoKey}, raises |-> FALSE]

ParamsRestAdd ==
    /\ Served
    /\ \E req \in ParamsReqs, env \in ParamsEnvs : create_memory(req, env, ParamsLim)

ParamsMcpAdd ==
    /\ Served
    /\ \E req \in ParamsReqs, env \in ParamsEnvs : add_memories(req, env, ParamsLim)

NextParams == ParamsRestAdd \/ ParamsMcpAdd

SpecParams == Init /\ [][NextParams]_vars

(***************************************************************************)
(* SpecHistory: every operation that changes the state of a memory.  One   *)
(* user adds memories on the inference path (the client answers with       *)
(* events of any kind), deletes them on both surfaces, archives and pauses *)
(* them.  No commit and no vector-store deletion fails: the answers of the *)
(* client and the delete requests are those of SpecStore.                  *)
(***************************************************************************)
HistoryReqs == {AddReq("u1", "app1", "t1", NoKey, "true", "null", "null", NoText, NoId)}

HistoryPauseReqs ==
    {PauseReq("u1", TRUE, NoId, FALSE, <<>>, {}, st) : st \in {NoId, "active"}}
    \cup {PauseReq("u1", FALSE, NoId, FALSE, <<m>>, {}, st) :
            m \in MemoryIds, st \in {NoId, "active"}}

HistoryRestAdd ==
    /\ Served
    /\ \E req \in HistoryReqs, env \in StoreEnvs : create_memory(req, env, StoreLim)

HistoryMcpAdd ==
    /\ Served
    /\ \E req \in HistoryReqs, env \in StoreEnvs : add_memories(req, env, StoreLim)

HistoryRestDelete ==
    /\ Served
    /\ \E req \in StoreDeleteReqs, env \in StoreDeleteEnvs :
          delete_memories(req, env)

HistoryMcpDelete ==
    /\ Served
    /\ \E req \in StoreDeleteReqs, env \in StoreDeleteEnvs :
          mcp_delete_memories(req, env)

HistoryMcpDeleteAll ==
    /\ Served
    /\ \E env \in StoreDeleteEnvs :
          delete_all_memories([user |-> "u1", app |-> "app1",
                               delete_attachments |-> FALSE], env)

HistoryArchive ==
    /\ Served
    /\ \E ids \in SeqsUpTo(MemoryIds, MaxIdList) : archive_memories(ids)

HistoryPause ==
    /\ Served
    /\ \E req \in HistoryPauseReqs : pause_memories(req)

NextHistory ==
    \/ HistoryRestAdd \/ HistoryMcpAdd
    \/ HistoryRestDelete \/ HistoryMcpDelete \/ HistoryMcpDeleteAll
    \/ HistoryArchive \/ HistoryPause

SpecHistory == Init /\ [][NextHistory]_vars

(***************************************************************************)
(* SpecReAdd: one user adds a text on the inference path, deletes the      *)
(* memory the add created, and adds the same text again, and so on in      *)
(* turn.  The text holds one fact, so memory_client.add returns one event  *)
(* at most.  memory_client.delete may raise; no commit fails.              *)
(***************************************************************************)
ReAddReqs ==
    {AddReq("u1", "app1", "t1", NoKey, "true", e, d, NoText, NoId) :
        e \in {"null", "false"}, d \in {"null", "false"}}

ReAddLim ==
    [events |-> 1, facts |-> Facts, kinds |-> AllKinds,
     merged |-> {NoKey}, raises |-> FALSE]

\* the request that deletes the memory the add before it has created
ReAddDeleteReqs ==
    IF last.op = "add" /\ Succeeded(last) /\ Len(last.events) = 1
                      /\ last.events[1].event = "ADD"
    THEN {[user |-> "u1", app |-> "app1", memory_ids |-> <<last.events[1].id>>,
           delete_attachments |-> FALSE]}
    ELSE {}

ReAddDeleteEnvs ==
    {[client_up |-> TRUE, commit_fails |-> FALSE, vec_fail |-> vf] :
        vf \in {{}, MemoryIds}}

\* an add is the first call or follows a delete that has succeeded
ReAddTurn == last.op = "init" \/ (last.op = "delete" /\ Succeeded(last))

ReAddRestAdd ==
    /\ Served /\ ReAddTurn
    /\ \E req \in ReAddReqs, env \in StoreEnvs : create_memory(req, env, ReAddLim)

ReAddMcpAdd ==
    /\ Served /\ ReAddTurn
    /\ \E req \in ReAddReqs, env \in StoreEnvs : add_memories(req, env, ReAddLim)

ReAddRestDelete ==
    /\ Served
    /\ \E req \in ReAddDeleteReqs, env \in ReAddDeleteEnvs : delete_memories(req, env)

ReAddMcpDelete ==
    /\ Served
    /\ \E req \in ReAddDeleteReqs, env \in ReAddDeleteEnvs :
          mcp_delete_memories(req, env)

NextReAdd == ReAddRestAdd \/ ReAddMcpAdd \/ ReAddRestDelete \/ ReAddMcpDelete

SpecReAdd == Init /\ [][NextReAdd]_vars

(***************************************************************************)
(* Properties.                                                             *)
(***************************************************************************)
\* C1: an add whose resolved infer value is false, on REST create_memory or
\* on MCP add_memories, stores the caller's text as the memory content and
\* makes no call into the memory client's add: the vector store is not
\* written.
C1_FastPathSkipsClient ==
    [][(last'.op = "add" /\ ~last'.infer /\ Succeeded(last'))
          => /\ ~last'.client_add
             /\ vec' = vec
             /\ \E m \in DOMAIN mem' :
                   /\ m \notin DOMAIN mem \/ mem[m] # mem'[m]
                   /\ mem'[m].content = last'.req.text]_vars

\* The events of a call that are a DELETE for a memory with a metadata row.
DeleteTargets(l) ==
    {i \in 1..Len(l.events) :
        l.events[i].event = "DELETE" /\ l.events[i].id \in DOMAIN mem}

\* C2: when the events of a completed add call hold a DELETE for a memory
\* that has a metadata row, the row's state is deleted, its deleted_at is
\* set and a history row for the transition is written, on REST as on MCP.
C2_DeleteEventMarksDeleted ==
    (last.op = "add" /\ Succeeded(last))
        => \A i \in DeleteTargets(last) :
              LET m == last.events[i].id
              IN  /\ mem[m].state = "deleted"
                  /\ mem[m].deleted_at
                  /\ \E k \in 1..Len(history) :
                        /\ history[k].memory_id = m
                        /\ history[k].new_state = "deleted"

ActiveIds == {m \in DOMAIN mem : mem[m].state = "active"}

ListOf(x) == IF x.kind = "list" THEN x.ids ELSE <<>>

\* C4: after an UPDATE event for a memory is applied during an add, the
\* attachment_ids of its metadata row are the attachment_ids of its
\* vector-store payload as it stands after the update.
C4_UpdateWritesBackPayloadList ==
    (last.op = "add" /\ Succeeded(last))
        => \A i \in 1..Len(last.events) :
              LET e == last.events[i]
              IN  (e.event = "UPDATE" /\ e.id \in DOMAIN mem)
                  => ListOf(mem[e.id].attachment_ids)
                       = ListOf(vec[e.id].attachment_ids)

\* C5: a deleted memory leaves the deleted state only by an ADD event that
\* reuses its id; pause, archive and delete never move it.
C5_DeletedIsTerminal ==
    [][\A m \in DOMAIN mem :
          (mem[m].state = "deleted" /\ mem'[m].state # "deleted")
             => /\ last'.op = "add"
                /\ \E i \in 1..Len(last'.events) :
                      /\ last'.events[i].event = "ADD"
                      /\ last'.events[i].id = m]_vars

\* C6: no memory whose metadata state is deleted is among the results of
\* search_memory, of the REST list or of the REST filter, whatever ran
\* before, a delete whose vector-store deletion failed included.
C6_DeletedNeverRetrieved ==
    last.op \in {"search", "list", "filter"}
        => \A m \in last.results : m \in DOMAIN mem /\ mem[m].state # "deleted"

\* a search whose hits hold the left-over point of a deleted memory
C6_Witness ==
    /\ last.op = "search"
    /\ Succeeded(last)
    /\ last.results # {}
    /\ \E h \in last.hits : h \in DOMAIN mem /\ mem[h].state = "deleted"

\* The id and the new state of the history row each event of a list stands
\* for, in list order; known: the ids that have a metadata row.
RECURSIVE EventRows(_, _)
EventRows(es, known) ==
    IF es = <<>> THEN <<>>
    ELSE LET e == Head(es)
         IN  IF e.event = "ADD"
             THEN <<<<e.id, "active">>>> \o EventRows(Tail(es), known \cup {e.id})
             ELSE IF e.event = "UPDATE" /\ e.id \in known
             THEN <<<<e.id, "active">>>> \o EventRows(Tail(es), known)
             ELSE IF e.event = "DELETE" /\ e.id \in known
             THEN <<<<e.id, "deleted">>>> \o EventRows(Tail(es), known)
             ELSE EventRows(Tail(es), known)

\* C7: the events of one add call are applied in list order and commit as
\* one: the history rows of all of them are committed, in order, or, when
\* the call fails, no metadata change and no history row is.
C7_EventsInOrderAllOrNothing ==
    [][(last'.op = "add" /\ last'.client_add)
          => IF Succeeded(last')
             THEN [k \in 1..Len(history') |->
                      <<history'[k].memory_id, history'[k].new_state>>]
                  = EventRows(last'.events, DOMAIN mem)
             ELSE mem' = mem /\ att' = att /\ history' = <<>>]_vars

\* C8: delete_memories with an empty id list, or with ids none of which is
\* an existing memory, is answered NotFound and changes nothing: no call to
\* the vector store's delete, no attachment, state or history row touched.
C8_DeleteOfNothingIsNotFound ==
    [][(/\ last'.op = "delete"
        /\ last'.env.client_up
        /\ Range(last'.req.memory_ids) \cap DOMAIN mem = {})
          => /\ last'.status \in {"404", "error"}
             /\ last'.calls = <<>>
             /\ mem' = mem /\ vec' = vec /\ att' = att
             /\ history' = <<>>]_vars

\* C9: after a successful delete_memories with delete_attachments = true no
\* attachment listed by a deleted memory is in the attachment store; and a
\* call that fails has a cause other than a listed attachment being gone
\* already.
C9_ListedAttachmentsRemoved ==
    (last.op = "delete" /\ last.req.delete_attachments)
        => /\ Succeeded(last)
                => listed_attachments(last.deleted) \cap DOMAIN att = {}
           /\ ~Succeeded(last)
                => \/ last.env.commit_fails
                   \/ IF last.surface = "rest"
                      THEN ~(Range(last.req.memory_ids) \subseteq DOMAIN mem)
                      ELSE last.deleted = {}

\* a successful cascading delete that found an attachment to remove
C9_Witness ==
    /\ last.op = "delete"
    /\ last.req.delete_attachments
    /\ Succeeded(last)
    /\ last.listed \ last.missing # {}

\* C10: no stored attachment is larger than the ceiling, whichever path
\* wrote it, and a write of an oversized content is answered 413.
C10_CeilingOnEveryPath ==
    /\ \A a \in DOMAIN att : utf8_len(att[a]) <= ATTACHMENT_MAX_SIZE_BYTES
    /\ (/\ last.op \in {"create_attachment", "update_attachment"}
        /\ utf8_len(last.content) > ATTACHMENT_MAX_SIZE_BYTES)
          => last.status = "413"

\* C11: on the REST attachment routes, create and update, a content whose
\* UTF-8 encoding is exactly ATTACHMENT_MAX_SIZE_BYTES long is not refused
\* for its size and is what the row holds when the call succeeds; a content
\* one byte longer is answered 413 and the attachment table is left as it
\* was.
C11_CeilingBoundary ==
    [][(/\ last'.op \in {"create_attachment", "update_attachment"}
        /\ last'.surface = "rest")
          => /\ utf8_len(last'.content) = ATTACHMENT_MAX_SIZE_BYTES
                  => /\ last'.status # "413"
                     /\ Succeeded(last') => /\ last'.id \in DOMAIN att'
                                            /\ att'[last'.id] = last'.content
             /\ utf8_len(last'.content) = ATTACHMENT_MAX_SIZE_BYTES + 1
                  => /\ last'.status = "413"
                     /\ att' = att]_vars

\* a REST update refused for a content one byte over the ceiling, of an
\* attachment that holds a content of exactly the ceiling
C11_Witness ==
    /\ last.op = "update_attachment"
    /\ last.surface = "rest"
    /\ last.status = "413"
    /\ utf8_len(last.content) = ATTACHMENT_MAX_SIZE_BYTES + 1
    /\ last.id \in DOMAIN att
    /\ utf8_len(att[last.id]) = ATTACHMENT_MAX_SIZE_BYTES

\* The request of the step creates an attachment under an id that a row of
\* the attachment table holds already: a create_attachment on either
\* surface, or an add that carries attachment_text and that attachment_id.
CreatesUnderExistingId ==
    \/ /\ last'.op = "create_attachment"
       /\ last'.id \in DOMAIN att
    \/ /\ last'.op = "add"
       /\ Truthy(last'.req.attachment_text)
       /\ last'.req.attachment_id \in DOMAIN att

\* C12, as stated: creating an attachment under an id that exists is
\* answered Conflict (409 on REST, the error payload on MCP), leaves the
\* attachment table as it was and creates no memory.
C12_CollisionIsConflict ==
    [][CreatesUnderExistingId
          => /\ last'.status \in {"409", "error"}
             /\ att' = att
             /\ mem' = mem]_vars

\* C12: creating an attachment under an id that exists fails, leaves the
\* attachment table, the memories and the vector store as they were and
\* writes no history row; the answer is Conflict, except that REST
\* create_attachment answers 413 when the content is also over the size
\* ceiling, which it checks first.
C12_CollisionFails ==
    [][CreatesUnderExistingId
          => /\ ~Succeeded(last')
             /\ att' = att
             /\ mem' = mem
             /\ vec' = vec
             /\ history' = <<>>
             /\ IF /\ last'.op = "create_attachment"
                   /\ last'.surface = "rest"
                   /\ ~validate_content_size(last'.content)
                THEN last'.status = "413"
                ELSE last'.status \in {"409", "error"}]_vars

\* a REST create_memory answered 409 for its attachment_text, the row under
\* that id holding another content
C12_Witness ==
    /\ last.op = "add"
    /\ last.surface = "rest"
    /\ last.status = "409"
    /\ Truthy(last.req.attachment_text)
    /\ last.req.attachment_id \in DOMAIN att
    /\ att[last.req.attachment_id] # last.req.attachment_text
    /\ mem = <<>>

\* The object ids of the rules of a list that have the given effect.
ObjectsOf(rules, effect) ==
    {rules[i].object_id : i \in {j \in 1..Len(rules) : rules[j].effect = effect}}

\* an evaluation result grants the memory
Grants(result, m) == result.all \/ m \in result.ids

\* C13: when the rules of the app hold a deny rule with null object_id,
\* the evaluation grants no memory, whatever the other rules are and in
\* whatever order the query returns them.
C13_GlobalDenyWins ==
    (last.op = "acl" /\ NoId \in ObjectsOf(last.rules, "deny"))
        => \A m \in MemoryIds : ~Grants(last.result, m)

\* C14: when the rules of the app hold a deny rule for a memory, the
\* evaluation does not grant that memory, allow-all rule or not.
C14_SpecificDenyWins ==
    last.op = "acl"
        => \A m \in ObjectsOf(last.rules, "deny") \ {NoId} :
              ~Grants(last.result, m)

\* C15: with no rule for the app the evaluation is unconstrained; with
\* rules none of which has a null object_id, the memories granted are the
\* object ids of the allow rules less those of the deny rules.
C15_SpecificAllowMinusDeny ==
    last.op = "acl"
        => /\ last.rules = <<>> => last.result = Unrestricted
           /\ (/\ last.rules # <<>>
               /\ NoId \notin ObjectsOf(last.rules, "allow")
               /\ NoId \notin ObjectsOf(last.rules, "deny"))
                 => last.result = Only(ObjectsOf(last.rules, "allow")
                                         \ ObjectsOf(last.rules, "deny"))

\* an evaluation of specific rules in which a deny rule takes a memory out
\* of the allow rules' ids
C15_Witness ==
    /\ last.op = "acl"
    /\ NoId \notin ObjectsOf(last.rules, "allow") \cup ObjectsOf(last.rules, "deny")
    /\ ObjectsOf(last.rules, "allow") \cap ObjectsOf(last.rules, "deny") # {}
    /\ last.result = Only({})

\* The memories of the user that the app of a request may access.
AccessibleTo(req) ==
    {m \in DOMAIN mem : /\ mem[m].user_id = req.user
                        /\ check_memory_access_permissions(mem, m, req.app)}

\* C16: a search through an app that can access no memory of the user
\* answers with a result list of zero entries, whatever hits the vector
\* store returns.
C16_NoAccessIsEmptyResult ==
    (last.op = "search" /\ AccessibleTo(last.req) = {})
        => last.status = "ok" /\ last.results = {}

\* C17: every hit search_memory returns is a memory of the user that the
\* requesting app may access; a point without a metadata row is never
\* returned.
C17_ResultsAreAccessible ==
    last.op = "search" => last.results \subseteq AccessibleTo(last.req)

\* a search that returned a memory while its hits held a point without a
\* metadata row
C17_Witness ==
    /\ last.op = "search"
    /\ last.status = "ok"
    /\ last.results # {}
    /\ last.hits \ DOMAIN mem # {}

\* C18: while an add with infer = true is inside its memory-client call, a
\* search that arrives can be served: the search handler can run to its
\* answer before the add returns.
C18_SearchRunsDuringAdd ==
    (loop # Idle /\ Resolve(loop.req.infer, loop.env.cfg.default_infer))
        => ENABLED LoopSearch

\* C19: listing memories and creating, reading, updating and deleting
\* attachments do not depend on the memory client.  On both surfaces a
\* listing succeeds, a delete of an attachment succeeds, and a create, a
\* read or an update of an attachment fails only for a reason of its own:
\* the id is taken, the id is unknown, the content is over the ceiling.
C19_ListAndAttachmentsSurviveOutage ==
    [][/\ last'.op = "list" => Succeeded(last')
       /\ last'.op = "delete_attachment" => Succeeded(last')
       /\ (last'.op = "create_attachment" /\ ~Succeeded(last'))
             => \/ last'.id \in DOMAIN att
                \/ ~validate_content_size(last'.content)
       /\ (last'.op = "update_attachment" /\ ~Succeeded(last'))
             => \/ last'.id \notin DOMAIN att
                \/ ~validate_content_size(last'.content)
       /\ (last'.op = "get_attachment" /\ ~Succeeded(last'))
             => last'.id \notin DOMAIN att]_vars

\* C20: an add through an app whose is_active flag is false is refused,
\* 403 on REST and the error payload on MCP, and writes nothing: the
\* attachment table, the vector store and the memories stay as they were
\* and no history row is written.
C20_PausedAppWritesNothing ==
    [][(last'.op = "add" /\ last'.req.app \in PausedApps)
          => /\ last'.status = IF last'.surface = "rest" THEN "403" ELSE "error"
             /\ att' = att
             /\ vec' = vec
             /\ mem' = mem
             /\ history' = <<>>]_vars

\* an add with an attachment text through the paused app, refused, while
\* the active app has stored a memory
C20_Witness ==
    /\ last.op = "add"
    /\ last.req.app \in PausedApps
    /\ ~Succeeded(last)
    /\ Truthy(last.req.attachment_text)
    /\ att = <<>>
    /\ mem # <<>>
    /\ \A m \in DOMAIN mem : mem[m].app_id \notin PausedApps

(***************************************************************************)
(* C21.  Attachment intake precedes every other write of an add call: when *)
(* the intake fails (attachment_text given under an id that is taken, or   *)
(* attachment_id given alone and naming no attachment) the call fails, the *)
(* memory client is not called, and the vector store, the memory rows, the *)
(* attachments and the history stay as they were; on the fast path and on  *)
(* the inference path of both surfaces.                                    *)
(***************************************************************************)
IntakeFails(req) ==
    \/ Truthy(req.attachment_text) /\ req.attachment_id \in DOMAIN att
    \/ /\ ~Truthy(req.attachment_text)
       /\ req.attachment_id # NoId
       /\ req.attachment_id \notin DOMAIN att

C21_IntakePrecedesWrites ==
    [][(last'.op = "add" /\ IntakeFails(last'.req)) =>
          /\ ~Succeeded(last')
          /\ ~last'.client_add
          /\ vec' = vec /\ mem' = mem /\ att' = att
          /\ history' = <<>>]_vars

\* an add on the inference path refused for the collision of its attachment
\* id, after an earlier add has stored memories and that attachment
C21_Witness ==
    /\ last.op = "add" /\ last.infer
    /\ Truthy(last.req.attachment_text)
    /\ last.req.attachment_id \in DOMAIN att
    /\ ~Succeeded(last) /\ ~last.client_add
    /\ DOMAIN mem # {}

(***************************************************************************)
(* C22.  When memory_client.add raises, the add call fails and the         *)
(* metadata store is as it was before the call: no memory row is new or    *)
(* changed, no history row is written, and the attachment the call took in *)
(* is not stored.                                                          *)
(***************************************************************************)
C22_ClientErrorLeavesNoRows ==
    [][(last'.op = "add" /\ last'.raised) =>
          /\ ~Succeeded(last')
          /\ mem' = mem /\ att' = att
          /\ history' = <<>>]_vars

\* memory_client.add raised after it had written a point, in a call that
\* carried a new attachment
C22_Witness ==
    /\ last.op = "add" /\ last.raised
    /\ Truthy(last.req.attachment_text)
    /\ last.req.attachment_id \notin DOMAIN att
    /\ DOMAIN vec \ DOMAIN mem # {}

(***************************************************************************)
(* C23.  The attachment_ids of every memory row is absent or a list whose  *)
(* elements are pairwise distinct, never a scalar, whatever metadata the   *)
(* caller supplied and whatever list an UPDATE wrote back.                 *)
(***************************************************************************)
Distinct(l) == \A i, j \in 1..Len(l) : l[i] = l[j] => i = j

C23_AttachmentIdsIsDistinctList ==
    \A m \in DOMAIN mem :
        /\ mem[m].attachment_ids.kind \in {"absent", "list"}
        /\ Distinct(mem[m].attachment_ids.ids)

(***************************************************************************)
(* C24.  ID unification.  On the path through memory_client.add, the rows  *)
(* a successful add creates are rows under the ids of its ADD events and   *)
(* no others, the rows it re-activates are rows named by its ADD events,   *)
(* and every ADD event leaves an active row under its own id that holds    *)
(* the event's text.                                                       *)
(***************************************************************************)
AddIds(es) == {es[i].id : i \in {j \in 1..Len(es) : es[j].event = "ADD"}}

C24_RowsCarryEventIds ==
    [][(last'.op = "add" /\ last'.client_add /\ Succeeded(last')) =>
          /\ DOMAIN mem' \ DOMAIN mem = AddIds(last'.events) \ DOMAIN mem
          /\ \A m \in DOMAIN mem :
                (mem[m].state # "active" /\ mem'[m].state = "active")
                    => m \in AddIds(last'.events)
          /\ \A i \in 1..Len(last'.events) :
                last'.events[i].event = "ADD" =>
                    /\ last'.events[i].id \in DOMAIN mem'
                    /\ mem'[last'.events[i].id].state = "active"
                    /\ mem'[last'.events[i].id].content = last'.events[i].memory]_vars

\* an add whose events are an ADD under a new id and an ADD that reuses the
\* id of a row deleted before
C24_Witness ==
    /\ last.op = "add" /\ last.client_add /\ Succeeded(last)
    /\ Cardinality(AddIds(last.events)) = 2
    /\ \E m \in AddIds(last.events) : mem[m].deleted_at
    /\ \A m \in AddIds(last.events) : m \in DOMAIN vec /\ mem[m].state = "active"

(***************************************************************************)
(* C25.  Parameter resolution.  The resolved infer is the request's value, *)
(* or the configured default when the request's value is null; when it is  *)
(* true, extract and deduplicate are resolved the same way, each against   *)
(* its own default; when it is false, both are false.  On both surfaces,   *)
(* for every combination of request values and defaults.                   *)
(***************************************************************************)
Chosen(v, default, resolved) ==
    /\ v = "null" => resolved = default
    /\ v = "true" => resolved
    /\ v = "false" => ~resolved

C25_ParametersResolved ==
    last.op = "add" =>
        /\ Chosen(last.req.infer, last.cfg.default_infer, last.infer)
        /\ last.infer =>
              /\ Chosen(last.req.extract, last.cfg.default_extract, last.extract)
              /\ Chosen(last.req.deduplicate, last.cfg.default_deduplicate,
                        last.deduplicate)
        /\ ~last.infer => ~last.extract /\ ~last.deduplicate

\* infer left null under a default of false: extract=true and a default
\* deduplicate of true are both forced to false, and the MCP call stores
\* the raw text
C25_Witness ==
    /\ last.op = "add" /\ last.surface = "mcp" /\ Succeeded(last)
    /\ last.req.infer = "null" /\ ~last.cfg.default_infer
    /\ last.req.extract = "true"
    /\ last.req.deduplicate = "null" /\ last.cfg.default_deduplicate
    /\ ~last.infer /\ ~last.extract /\ ~last.deduplicate
    /\ \E m \in DOMAIN mem : mem[m].content = last.req.text

(***************************************************************************)
(* C26.  The pause operation only moves memories between active and        *)
(* paused: a memory whose state a pause request changes was active or      *)
(* paused before and is active or paused after.                            *)
(***************************************************************************)
C26_PauseOnlyBetweenActiveAndPaused ==
    [][last'.op = "pause" =>
          \A m \in DOMAIN mem :
              mem'[m].state # mem[m].state =>
                  /\ mem[m].state \in {"active", "paused"}
                  /\ mem'[m].state \in {"active", "paused"}]_vars

(***************************************************************************)
(* C27.  Every operation that changes the state of a memory writes a       *)
(* history row for it whose old_state is the state the memory had before   *)
(* the operation (deleted for a memory that had no row) and whose          *)
(* new_state is the state it has after.                                    *)
(***************************************************************************)
StateBefore(m) == IF m \in DOMAIN mem THEN mem[m].state ELSE "deleted"

C27_HistoryHoldsActualOldState ==
    [][\A m \in DOMAIN mem' :
          StateBefore(m) # mem'[m].state =>
              \E k \in 1..Len(history') :
                  history'[k] = MemoryStatusHistory(m, StateBefore(m),
                                                    mem'[m].state)]_vars

(***************************************************************************)
(* C28.  After add(text), the delete of the memory it created and          *)
(* add(text) again, there is exactly one active memory: the deleted row is *)
(* still deleted or is the row the last add re-activated, and no second    *)
(* active row exists.  (An add for which the client extracts no fact at    *)
(* all returns no event and is not the case the property is about.)        *)
(***************************************************************************)
C28_ReAddLeavesOneActive ==
    (last.op = "add" /\ served >= 3 /\ Succeeded(last) /\ last.events # <<>>) =>
        Cardinality(ActiveIds) = 1

(***************************************************************************)
(* C29.  An add whose events are all NONE leaves every memory row as it    *)
(* was (content, metadata, state) and writes no history row, also when the *)
(* call carried attachment_text or attachment_id.                          *)
(***************************************************************************)
OnlyNone(es) == es # <<>> /\ \A i \in 1..Len(es) : es[i].event = "NONE"

C29_NoneChangesNoRow ==
    [][(last'.op = "add" /\ last'.client_add /\ ~last'.raised
                        /\ OnlyNone(last'.events)) =>
          /\ mem' = mem
          /\ history' = <<>>]_vars

\* a call with a new attachment answered with NONE for each of two memories
C29_Witness ==
    /\ last.op = "add" /\ Succeeded(last)
    /\ OnlyNone(last.events) /\ Len(last.events) = 2
    /\ Truthy(last.req.attachment_text)
    /\ \A i \in 1..2 : /\ last.events[i].id \in DOMAIN mem
                        /\ last.att_id \notin RefsIn(mem[last.events[i].id].attachment_ids)

(***************************************************************************)
(* C30.  REST create_memory and MCP add_memories are equivalent on the     *)
(* metadata store: for the state a successful add started from and the     *)
(* event list memory_client.add returned to it, the handler of the other   *)
(* surface would have left every memory with the same state and content    *)
(* and would have written the same history rows.                           *)
(***************************************************************************)
StateAndContent(rows) ==
    [m \in DOMAIN rows |-> <<rows[m].state, rows[m].content>>]

\* what the handler of the other surface commits, started from the state
\* before the step with the metadata and the events of the call
OtherSurface(l, v) ==
    LET md == IF l.att_id # NoId THEN IdList(<<l.att_id>>) ELSE l.req.metadata
        env == CHOOSE e \in StoreEnvs : TRUE
        R == create_memory_events(Session(md), l.events, l.req, env, v)
        M == add_memories_events(McpSession(md), l.events, l.req, env, v)
    IN  IF l.surface = "rest"
        THEN [mem |-> Flush(M).mem, hist |-> M.hist]
        ELSE IF R.created > 0
        THEN [mem |-> Flush(R).mem, hist |-> R.hist]
        ELSE [mem |-> mem, hist |-> <<>>]

C30_SurfacesAgreeOnMetadata ==
    [][(last'.op = "add" /\ last'.client_add /\ Succeeded(last')) =>
          /\ StateAndContent(mem') = StateAndContent(OtherSurface(last', vec').mem)
          /\ history' = OtherSurface(last', vec').hist]_vars

(***************************************************************************)
(* Paging and sorting of the query endpoints                               *)
(***************************************************************************)
SortColumns == {NoId, "created_at", "bogus"}
SortDirections == {NoId, "asc", "DESC", "sideways"}

\* attachments.py:122-130: page and size are plain ints
FilterAttachmentsRequest ==
    [page : 0..2, size : 0..2, sort_column : SortColumns,
     sort_direction : SortDirections]

QueryListReqs ==
    {[user |-> "u1", app_id |-> NoId, sort_column |-> c, sort_direction |-> d] :
        c \in SortColumns, d \in SortDirections}

QueryFilterReqs ==
    {[user |-> "u1", show_archived |-> FALSE, sort_column |-> c,
      sort_direction |-> d] : c \in SortColumns, d \in SortDirections}

QueryCreateAttachment ==
    /\ Served
    /\ \E id \in AttIds : create_attachment(Small, id)

QueryDeleteAttachment ==
    /\ Served
    /\ \E id \in AttIds : delete_attachment(id)

QueryFilterAttachments ==
    /\ Served
    /\ \E req \in FilterAttachmentsRequest, f \in BOOLEAN :
          filter_attachments(req, [negative_offset_fails |-> f])

QueryFilterMemories ==
    /\ Served
    /\ \E req \in QueryFilterReqs : filter_memories(req)

QueryListMemories ==
    /\ Served
    /\ \E req \in QueryListReqs : list_memories(req)

QueryAdd ==
    /\ Served
    /\ \E req \in ReAddReqs, env \in StoreEnvs : create_memory(req, env, ReAddLim)

NextQuery ==
    \/ QueryCreateAttachment \/ QueryDeleteAttachment \/ QueryFilterAttachments
    \/ QueryFilterMemories \/ QueryListMemories \/ QueryAdd

SpecQuery == Init /\ [][NextQuery]_vars

\* C31: an attachment filter request with size = 0 or page = 0 is answered
\* with a 4xx validation error, never a server error or a result page.
C31_OutOfRangePagingIsBadRequest ==
    (/\ last.op = "filter_attachments"
     /\ (last.req.size = 0 \/ last.req.page = 0))
        => last.status = "400"

\* C32: a sort column outside the whitelist is answered with 400 by the
\* attachment filter, the memory filter and the memory list, whether or
\* not a sort direction is supplied.
C32_UnknownSortColumnIsBadRequest ==
    (/\ last.op \in {"filter_attachments", "filter", "list"}
     /\ last.req.sort_column = "bogus")
        => last.status = "400"

\* C33: delete_attachment is idempotent.  Every call answers success (204,
\* or success on MCP) and leaves the store without the id, whether or not a
\* row existed; a call that directly follows a delete of the same id gives
\* the same answer and leaves the attachment store as the first call left it.
C33_DeleteAttachmentIdempotent ==
    [][last'.op = "delete_attachment" =>
          /\ last'.status = (IF last'.surface = "rest" THEN "204" ELSE "ok")
          /\ att' = Without(att, last'.id)
          /\ (last.op = "delete_attachment" /\ last.id = last'.id) =>
                /\ att' = att
                /\ last.surface = last'.surface => last'.status = last.status]_vars

C33_Witness ==
    /\ last.op = "delete_attachment"
    /\ ~last.existed
    /\ last.id \notin DOMAIN att
    /\ served >= 2

(***************************************************************************)
(* What search_memory shows of the metadata of a hit                       *)
(***************************************************************************)
SearchAddReqs ==
    {AddReq("u1", "app1", "t1", NoKey, "true", "false", "false", c, NoId) :
        c \in {NoText, Small}}

ProjectionReqs ==
    {[user |-> "u1", app |-> "app1", include_metadata |-> i,
      attachment_ids_show |-> s] : i \in BOOLEAN, s \in Tristate}

SearchRestAdd ==
    /\ Served
    /\ \E req \in SearchAddReqs, env \in StoreEnvs : create_memory(req, env, ReAddLim)

SearchMcpAdd ==
    /\ Served
    /\ \E req \in SearchAddReqs, env \in StoreEnvs : add_memories(req, env, ReAddLim)

SearchProjected ==
    /\ Served
    /\ \E req \in ProjectionReqs, hits \in SUBSET MemoryIds, d \in BOOLEAN :
          search_memory(req, [client_up |-> TRUE, hits |-> hits,
                              default_attachment_ids_show |-> d])

NextSearch == SearchRestAdd \/ SearchMcpAdd \/ SearchProjected

SpecSearch == Init /\ [][NextSearch]_vars

\* C34: every record search_memory returns carries the full metadata object
\* of its memory when include_metadata is true; otherwise metadata holding
\* attachment_ids only when attachment_ids_show (or, for null, the
\* configured default) is true; otherwise no metadata key.
C34_SearchMetadataProjection ==
    (last.op = "search" /\ last.status = "ok") =>
        \A h \in last.results :
            LET r == last.records[h]
            IN  IF last.req.include_metadata
                THEN /\ r.has
                     /\ r.keys = mem[h].keys
                     /\ r.attachment_ids = mem[h].attachment_ids
                ELSE IF last.attachment_ids_value
                THEN /\ r.has
                     /\ r.keys = {}
                     /\ r.attachment_ids.kind = "list"
                     /\ RefsIn(r.attachment_ids) = RefsIn(mem[h].attachment_ids)
                ELSE ~r.has

\* the metadata["attachment_ids"] assembled for an add call: the caller's,
\* or the attachment the call took in
AssembledIds(l) == IF l.att_id # NoId THEN IdList(<<l.att_id>>) ELSE l.req.metadata

\* C35: within one add call the row created or re-activated by an ADD event
\* (and named by no other event of the call) stores the metadata assembled
\* for the call; attachment_ids read back for an UPDATE event earlier in
\* the call do not show up in it.
C35_AddRowKeepsCallMetadata ==
    [][(last'.op = "add" /\ last'.client_add /\ Succeeded(last')) =>
          \A i \in 1..Len(last'.events) :
              (/\ last'.events[i].event = "ADD"
               /\ \A j \in 1..Len(last'.events) :
                     j # i => last'.events[j].id # last'.events[i].id)
                  => mem'[last'.events[i].id].attachment_ids = AssembledIds(last')]_vars

(***************************************************************************)
(* Requests of one user on the memories of two                             *)
(***************************************************************************)
ScopeAddReqs ==
    {AddReq(u, "app1", "t1", NoKey, "true", "false", "false", a[1], a[2]) :
        u \in Users, a \in {<<NoText, NoId>>, <<Small, NoId>>, <<NoText, "a1">>}}

ScopeRestAdd ==
    /\ Served
    /\ \E req \in ScopeAddReqs, env \in StoreEnvs : create_memory(req, env, ReAddLim)

ScopeRestDelete ==
    /\ Served
    /\ \E req \in DeleteReqs, env \in StoreDeleteEnvs : delete_memories(req, env)

ScopePause ==
    /\ Served
    /\ \E req \in PauseReqs : pause_memories(req)

NextScope == ScopeRestAdd \/ ScopeRestDelete \/ ScopePause

SpecScope == Init /\ [][NextScope]_vars

\* C36: a REST delete_memories request of user U leaves every memory owned
\* by another user as it was: its row, its vector point and the
\* attachments it lists.
C36_DeleteTouchesOnlyOwnMemories ==
    [][(last'.op = "delete" /\ last'.surface = "rest") =>
          \A m \in DOMAIN mem :
              mem[m].user_id # last'.req.user =>
                  /\ mem'[m] = mem[m]
                  /\ m \in DOMAIN vec => m \in DOMAIN vec'
                  /\ RefsIn(mem[m].attachment_ids) \cap DOMAIN att \subseteq DOMAIN att']_vars

\* C37: a pause_memories request of user U, whatever its scope, changes the
\* state of no memory owned by another user.
C37_PauseTouchesOnlyOwnMemories ==
    [][last'.op = "pause" =>
          \A m \in DOMAIN mem :
              mem[m].user_id # last'.req.user => mem'[m].state = mem[m].state]_vars

C39_NoDanglingAttachmentAfterDelete ==
    [][(last'.op = "delete" /\ last'.req.delete_attachments /\ Succeeded(last')) =>
          \A m \in DOMAIN mem' :
              mem'[m].state # "deleted" =>
                  RefsIn(mem'[m].attachment_ids) \cap (DOMAIN att \ DOMAIN att') = {}]_vars

\* C40: an add call given attachment_text that commits no memory row (it
\* fails, or every event the memory client returns is NONE) leaves no
\* attachment row behind: the attachment store is as before the call, on
\* REST and on MCP.
C40_InlineAttachmentNeedsMemoryChange ==
    [][(/\ last'.op = "add"
        /\ Truthy(last'.req.attachment_text)
        /\ \/ ~Succeeded(last')
           \/ last'.client_add /\ OnlyNone(last'.events)) => att' = att]_vars

(***************************************************************************)
(* Adds, deletes and retrieval, without archive and pause                  *)
(***************************************************************************)
RetrieveRestDelete ==
    /\ Served
    /\ \E req \in StoreDeleteReqs, env \in ReAddDeleteEnvs : delete_memories(req, env)

RetrieveMcpDelete ==
    /\ Served
    /\ \E req \in StoreDeleteReqs, env \in ReAddDeleteEnvs :
          mcp_delete_memories(req, env)

NextRetrieve ==
    \/ LifeRestAdd \/ LifeMcpAdd \/ RetrieveRestDelete \/ RetrieveMcpDelete
    \/ Search \/ List \/ Filter

SpecRetrieve == Init /\ [][NextRetrieve]_vars

(***************************************************************************)
(* Adds with attachments and deletes that take the attachments along       *)
(***************************************************************************)
CascadeEnvs ==
    {[client_up |-> TRUE, commit_fails |-> cf, vec_fail |-> {}] : cf \in BOOLEAN}

CascadeRestDelete ==
    /\ Served
    /\ \E req \in DeleteReqs, env \in CascadeEnvs : delete_memories(req, env)

CascadeMcpDelete ==
    /\ Served
    /\ \E req \in DeleteReqs, env \in CascadeEnvs : mcp_delete_memories(req, env)

NextCascade ==
    LifeRestAdd \/ LifeMcpAdd \/ CascadeRestDelete \/ CascadeMcpDelete

SpecCascade == Init /\ [][NextCascade]_vars

====
